---- MODULE Spec2Model ----
(***************************************************************************)
(* COLORS: the keyboard gesture palette (js/keyboard-palette.js), the      *)
(* style registry (js/style-generator.js), the seeded generator            *)
(* (js/gesture-core.js) and the event gesture player                       *)
(* (js/event-gesture-player.js) as one state machine.                      *)
(*                                                                         *)
(* Conventions.  A JavaScript value that may be null/undefined is a        *)
(* sequence of length 0 or 1 (None, Some(x)).  Numbers in [0,1] (density,  *)
(* velocity, weights, next()) are fixed-point thousandths.  Objects whose  *)
(* identity matters (SlotConfig, Gesture, playback state) carry an         *)
(* identity tag that no other live object of the same slot carries.        *)
(* Time is in milliseconds; event times and durations are whole beats.     *)
(***************************************************************************)
EXTENDS Integers, Sequences, FiniteSets, TLC

VARIABLES
    \* ---- KeyboardGesturePalette ----
    minSlot, maxSlot,       \* this.minSlot, this.maxSlot
    root, scale,            \* this.root, this.scale
    tempo,                  \* this.performanceContext.tempo
    slotConfigs,            \* Map slotId -> SlotConfig
    gestures,               \* Map slotId -> Gesture (the cache)
    lockedSlots,            \* Set of slotId
    harmonicContext,        \* this.harmonicContext
    styleDistribution,      \* this.styleDistribution, keys in insertion order
    \* ---- EventGesturePlayer ----
    activeGestures,         \* Map slotId -> playback state, in insertion order
    heap,                   \* the GesturePlaybackState objects, by identity
    \* ---- the host: timers, clock, voice engine, the caller ----
    timers,                 \* pending setTimeout/setInterval entries, in registration order
    now,                    \* the clock, ms
    engineCalls,            \* engine calls issued by the last step
    lastCall,               \* the last operation and what it returned
    sinceTrigger,           \* per slot: the last successful trigger not yet followed by a release
    budget,                 \* palette mutations still allowed (bounds the exploration)
    palette,                \* the player's this.palette is set
    rng,                    \* two SeededRandom instances built from one seed, and what they returned
    engine                  \* the PolyphonicEngine: maxVoices, voices, activeNotes

vars == << minSlot, maxSlot, root, scale, tempo, slotConfigs, gestures, lockedSlots,
           harmonicContext, styleDistribution, activeGestures, heap, timers, now,
           engineCalls, lastCall, sinceTrigger, budget, palette, rng, engine >>

paletteVars == << minSlot, maxSlot, root, scale, tempo, slotConfigs, gestures, lockedSlots,
                  harmonicContext, styleDistribution >>

playerVars == << activeGestures, heap, timers, now, sinceTrigger, palette >>

----------------------------------------------------------------------------
(* Bounds of the exploration *)

\* slots of the palette under the player specification
PlayerSlots == 2

\* slots of the palette under the palette specification
PaletteSlots == 3

\* slots of the palette under the evolve specification
EvolveSlots == 6

\* clock ticks explored
MaxTicks == 4

\* palette mutations explored per behaviour under the palette specification
PaletteOps == 2

\* palette mutations explored per behaviour under the evolve specification
EvolveOps == 1

\* palette mutations explored per behaviour under the player specification
PlayerOps == 1

\* playback state objects that can be alive at once
MaxStates == 2

\* slots of the palette under the trigger specification
TriggerSlots == 1

\* palette mutations explored per behaviour under the trigger specification
TriggerOps == 1

\* slots of the palette under the liveness specification
LiveSlots == 2

\* triggerSlot calls per behaviour under the liveness specification
LiveOps == 2

\* events per Gesture looked at by the liveness properties
LiveEvents == 3

\* slot config edits per behaviour under the loop specification
LoopOps == 2

\* voices of the engine's pool when the polyphony is turned down
PoolSize == 2

\* triggerSlot calls explored per behaviour with the engine attached
ComposedOps == 3

\* pad presses explored per behaviour
PadOps == 2

\* triggerPad calls explored per behaviour of the legacy GesturePlayer
LegacyOps == 2

\* calls made on each SeededRandom instance
RngCalls == 2

\* palette mutations in the layout specification
LayoutOps == 3

(* Program constants *)

\* default minSlot of the palette constructor
DefaultMinSlot == 36

\* the polyphony the host constructs the engine with
DefaultVoices == 8

\* maxSlot = 96 by default
DefaultMaxSlot == 96

\* default tempo of the palette constructor
DefaultTempo == 120

\* master seed of initializeSlots
MasterSeed == 12345

\* first slot of the app's pad grid (this.gridStartSlot)
GridStartSlot == 48

\* MIDI note of the first pad (padNoteOffset)
PadNoteOffset == 33

\* pads of the controller and of the grid (padCount)
PadCount == 32

\* the GestureGrid's this.strumSpeed, ms between the notes of a strum
StrumSpeed == 60

\* the GestureGrid's this.tempo
GridTempo == 120

\* modulus of SeededRandom
Modulus == 2147483647

\* multiplier of SeededRandom
Multiplier == 16807

----------------------------------------------------------------------------
(* null / undefined *)

None == << >>

Some(x) == << x >>

IsSome(o) == Len(o) = 1

Get(o) == o[1]

Min(a, b) == IF a < b THEN a ELSE b

Max(a, b) == IF a > b THEN a ELSE b

Abs(a) == IF a < 0 THEN -a ELSE a

\* Math.min(max, Math.max(min, value)) with min = 0, max = 1, in thousandths
clamp(value) == Min(1000, Max(0, value))

----------------------------------------------------------------------------
(* SeededRandom: the state is this.seed *)

\* constructor(seed): this.seed = seed % 2147483647; if (this.seed <= 0) this.seed += 2147483646
\* (JavaScript % takes the sign of the dividend)
JsRem(a, m) == IF a >= 0 THEN a % m ELSE -((-a) % m)

SeededRandom(seed) ==
    LET s == JsRem(seed, Modulus)
    IN  IF s <= 0 THEN s + (Modulus - 1) ELSE s

\* next(): this.seed = (this.seed * 16807) % 2147483647, computed without
\* leaving 32 bits (Schrage: 2147483647 = 16807 * 127773 + 2836); a state of 0
\* stays 0
RngStep(s) ==
    LET q  == Modulus \div Multiplier
        r  == Modulus % Multiplier
        t  == Multiplier * (s % q) - r * (s \div q)
    IN  IF t >= 0 THEN t ELSE t + Modulus

\* the value next() returns, (this.seed - 1) / 2147483646, in thousandths (truncated)
Milli(s) == (s - 1) \div ((Modulus - 1) \div 1000 + 1)

\* range(min, max) = min + next() * (max - min), in thousandths
RngRange(s, lo, hi) == lo + (Milli(s) * (hi - lo)) \div 1000

\* int(0, len - 1) = floor(next() * len), 1-based here; exact when len divides 2147483646
RngIndex(s, len) == Min(len, ((s - 1) \div ((Modulus - 1) \div len)) + 1)

\* choice(array)
RngChoice(s, array) == array[RngIndex(s, Len(array))]

\* the value next() returns is Numerator(s) / 2147483646
Numerator(s) == s - 1

\* Math.floor(x * n / 2147483646) for an integer x and n > 0, computed without
\* leaving 32 bits: with 2147483646 = a * n + b, j * 2147483646 / n = j * a + j * b / n
FloorScaled(x, n) ==
    LET a == (Modulus - 1) \div n
        b == (Modulus - 1) % n
    IN  IF x >= 0
          THEN Cardinality({ j \in 1..n : x >= j * a + (j * b + n - 1) \div n })
          ELSE -Cardinality({ j \in 0..(n - 1) : -x > j * a + (j * b) \div n })

\* int(min, max) = Math.floor(min + next() * (max + 1 - min)), with the state next() left
RngInt(s, lo, hi) == lo + FloorScaled(Numerator(s), hi + 1 - lo)

\* one call made on a SeededRandom instance and the value it returned (for
\* next(), the numerator of the value)
RngCall(op, lo, hi, value) == [ op |-> op, lo |-> lo, hi |-> hi, value |-> value ]

\* two instances built by new SeededRandom(seed), with the calls made on each
RngPair(seed) ==
    [ seed |-> seed,
      a |-> [ state |-> SeededRandom(seed), out |-> << >> ],
      b |-> [ state |-> SeededRandom(seed), out |-> << >> ] ]

\* rng.next() * 1000000, truncated to an integer
SeedOf(s) == (s - 1) \div ((Modulus - 1) \div 1000000 + 1)

----------------------------------------------------------------------------
(* Style registry *)

\* the generators keyboard-palette.js registers, in registration order
RegisteredStyles == << "aliceCascade", "tintinnabuli", "fracturedLead", "lyricalMinimal" >>

SeqToSet(q) == { q[i] : i \in 1..Len(q) }

\* styleRegistry.has(styleId)
RegistryHas(styleId) == styleId \in SeqToSet(RegisteredStyles)

\* the distribution the palette constructor sets
InitialDistribution ==
    << [style |-> "lyricalMinimal", weight |-> 300],
       [style |-> "aliceCascade",   weight |-> 200],
       [style |-> "tintinnabuli",   weight |-> 200],
       [style |-> "fracturedLead",  weight |-> 150],
       [style |-> "ambientTexture", weight |-> 100],
       [style |-> "bocTexture",     weight |-> 50] >>

RECURSIVE SumWeights(_)
SumWeights(q) == IF q = << >> THEN 0 ELSE Head(q).weight + SumWeights(Tail(q))

RECURSIVE PickWeighted(_, _)
\* for (const style of available) { random -= weights[style]; if (random <= 0) return style; }
\* r is in millionths; None when the loop falls through
PickWeighted(available, r) ==
    IF available = << >> THEN None
    ELSE IF r - Head(available).weight * 1000 <= 0 THEN Some(Head(available).style)
         ELSE PickWeighted(Tail(available), r - Head(available).weight * 1000)

\* faulty variant of weightedChoice: the styles are not filtered by the registry
weightedChoiceUnfiltered(weights, s) ==
    LET s1     == RngStep(s)
        picked == PickWeighted(weights, Milli(s1) * SumWeights(weights))
    IN  IF weights = << >>
          THEN [style |-> "lyricalMinimal", rng |-> s]
          ELSE [style |-> IF IsSome(picked) THEN Get(picked) ELSE Head(weights).style,
                rng |-> s1]

\* weightedChoice(weights, rng): the style, and the generator state afterwards
weightedChoice(weights, s) ==
    LET available == SelectSeq(weights, LAMBDA w : RegistryHas(w.style))
        s1        == RngStep(s)
        total     == SumWeights(available)
        random    == Milli(s1) * total
        picked    == PickWeighted(available, random)
    IN  IF available = << >>
          THEN [style |-> "lyricalMinimal", rng |-> s]
          ELSE [style |-> IF IsSome(picked) THEN Get(picked) ELSE Head(available).style,
                rng |-> s1]

----------------------------------------------------------------------------
(* SlotConfig *)

\* new SlotConfig({...}); obj is the object's identity
SlotConfig(obj, slotId, styleId, role, density, complexity, tension, registerShift, rhythmLoose, motifVariation, seed) ==
    [ obj |-> obj, slotId |-> slotId, styleId |-> styleId, role |-> role,
      density |-> density, complexity |-> complexity, tension |-> tension,
      registerShift |-> registerShift, rhythmLoose |-> rhythmLoose,
      motifVariation |-> motifVariation, seed |-> seed ]

\* the identity of a SlotConfig created for a slot that holds (or not) a config
NewConfigObj(configs, slotId) ==
    IF slotId \in DOMAIN configs THEN 1 - configs[slotId].obj ELSE 0

\* createSlotConfig(slotId, rng, totalSlots): the config and the generator state afterwards
createSlotConfig(obj, slotId, s, totalSlots, lo, dist) ==
    LET \* position = (slotId - this.minSlot) / totalSlots, compared with 0.25, 0.5, 0.75
        pos4  == 4 * (slotId - lo)
        low   == pos4 < totalSlots
        lowMid == pos4 < 2 * totalSlots
        upMid == pos4 < 3 * totalSlots
        s1    == RngStep(s)
        role  == IF low THEN RngChoice(s1, << "bass", "texture", "chords" >>)
                 ELSE IF lowMid THEN RngChoice(s1, << "chords", "texture" >>)
                 ELSE IF upMid THEN RngChoice(s1, << "chords", "lead" >>)
                 ELSE RngChoice(s1, << "lead", "texture" >>)
        wc    == weightedChoice(dist, s1)
        s2    == IF low \/ ~upMid THEN RngStep(s1) ELSE wc.rng
        style == IF low THEN RngChoice(s2, << "tintinnabuli", "lyricalMinimal", "aliceCascade" >>)
                 ELSE IF upMid THEN wc.style
                 ELSE RngChoice(s2, << "fracturedLead", "lyricalMinimal", "aliceCascade" >>)
        shift == IF low THEN -1 ELSE IF upMid THEN 0 ELSE 1
        s3    == RngStep(s2)
        s4    == RngStep(s3)
        s5    == RngStep(s4)
        s6    == RngStep(s5)
        s7    == RngStep(s6)
        s8    == RngStep(s7)
    IN  [ config |-> SlotConfig(obj, slotId, style, role,
                                RngRange(s3, 300, 800), RngRange(s4, 300, 700),
                                RngRange(s5, 200, 600), shift,
                                RngRange(s6, 100, 400), RngRange(s7, 200, 500),
                                SeedOf(s8)),
          rng |-> s8 ]

----------------------------------------------------------------------------
(* Gestures and the generators *)

\* new GestureEvent({time, note, velocity, duration, tag})
GestureEvent(time, note, velocity, duration, tag) ==
    [ time |-> time, note |-> note, velocity |-> velocity, duration |-> duration, tag |-> tag ]

\* new Gesture({typeId, slotId, role, events, loopLengthBeats}); obj is the object's identity
Gesture(obj, typeId, slotId, role, events, loopLengthBeats) ==
    [ obj |-> obj, typeId |-> typeId, slotId |-> slotId, role |-> role,
      events |-> events, loopLengthBeats |-> loopLengthBeats ]

\* faulty variant of HarmonicContext: the context is always that of C major
HarmonicContextStale(r, sc) == [ root |-> "C", scale |-> "major" ]

\* new HarmonicContext({root, scale, ...}): the scale notes and chords follow from root and scale
HarmonicContext(r, sc) == [ root |-> r, scale |-> sc ]

\* the pitch the generators centre on: registerCenter = 60 + (baseOctave - 4) * 12, moved to the root
CenterPitch(config, hc) ==
    60 + 12 * config.registerShift + (IF hc.root = "C" THEN 0 ELSE 2)

\* the third of the scale above the root
ThirdOf(hc) == IF hc.scale = "major" THEN 4 ELSE 3

\* faulty variant of GeneratorOutput: the first event's duration follows the
\* tempo of the performance context
GeneratorOutputAtTempo(obj, config, hc) ==
    LET p   == CenterPitch(config, hc)
        q   == p + ThirdOf(hc)
        odd == config.seed % 2 = 1
        len == IF tempo = DefaultTempo THEN 1 ELSE 2
        ev  == CASE config.styleId = "lyricalMinimal" ->
                      << GestureEvent(0, p, 650, len, None),
                         IF odd THEN GestureEvent(1, p, 700, 1, Some("ghost"))
                                ELSE GestureEvent(1, q, 700, 1, None) >>
                 [] config.styleId = "tintinnabuli" ->
                      << GestureEvent(0, p, 650, 2 * len, Some("pedal")),
                         GestureEvent(2, q, 450, 1, None) >>
                 [] config.styleId = "aliceCascade" ->
                      << GestureEvent(0, p, 600, len, None),
                         GestureEvent(1, q, 900, 2, Some("accent")) >>
                 [] OTHER ->
                      << GestureEvent(0, p, 800, len, None),
                         GestureEvent(0, IF odd THEN p ELSE q, 480, 0, Some("grace")) >>
        loop == CASE config.styleId = "lyricalMinimal" -> Some(2)
                  [] config.styleId = "tintinnabuli" -> Some(4)
                  [] OTHER -> None
    IN  Gesture(obj, config.styleId, config.slotId, config.role, ev, loop)

\* What a registered generator returns, reduced to the shape the player sees:
\* whole-beat times and durations, two events, the loop length the style sets
\* (lyricalMinimal and tintinnabuli loop, aliceCascade and fracturedLead are
\* one-shots; a grace note's 0.05 beats round to a duration of 0).  The output
\* is a function of the config and the harmonic context alone.
GeneratorOutput(obj, config, hc) ==
    LET p   == CenterPitch(config, hc)
        q   == p + ThirdOf(hc)
        odd == config.seed % 2 = 1
        ev  == CASE config.styleId = "lyricalMinimal" ->
                      << GestureEvent(0, p, 650, 1, None),
                         IF odd THEN GestureEvent(1, p, 700, 1, Some("ghost"))
                                ELSE GestureEvent(1, q, 700, 1, None) >>
                 [] config.styleId = "tintinnabuli" ->
                      << GestureEvent(0, p, 650, 2, Some("pedal")),
                         GestureEvent(2, q, 450, 1, None) >>
                 [] config.styleId = "aliceCascade" ->
                      << GestureEvent(0, p, 600, 1, None),
                         GestureEvent(1, q, 900, 2, Some("accent")) >>
                 [] OTHER ->
                      << GestureEvent(0, p, 800, 1, None),
                         GestureEvent(0, IF odd THEN p ELSE q, 480, 0, Some("grace")) >>
        loop == CASE config.styleId = "lyricalMinimal" -> Some(2)
                  [] config.styleId = "tintinnabuli" -> Some(4)
                  [] OTHER -> None
    IN  Gesture(obj, config.styleId, config.slotId, config.role, ev, loop)

\* faulty variant of Generate: the fallback Gesture is built without the
\* config's slotId and role, so it carries the constructor's defaults
GenerateDefaultFallback(obj, config, hc) ==
    IF ~RegistryHas(config.styleId)
      THEN Gesture(obj, "empty", 60, "chords", << >>, None)
      ELSE GeneratorOutput(obj, config, hc)

\* StyleRegistry.generate(slotConfig, harmonicContext, performanceContext)
Generate(obj, config, hc) ==
    IF ~RegistryHas(config.styleId)
      THEN Gesture(obj, "empty", config.slotId, config.role, << >>, None)
      ELSE GeneratorOutput(obj, config, hc)

----------------------------------------------------------------------------
(* FracturedLeadGenerator: the times and durations of the events it generates,
   in ten-thousandths of a beat, for a config whose motifVariation is 0 (the
   mutation amount rep * motifVariation is then 0 in every repetition: the four
   mutation draws of mutateMotif are made and none of them applies) *)

\* the state of the generator after n more calls of next() (a state of 0 stays 0)
RECURSIVE RngSteps(_, _)
RngSteps(s, n) == IF n = 0 \/ s = 0 THEN s ELSE RngSteps(RngStep(s), n - 1)

\* rng.next() < 0.2
BelowFifth(s) == Numerator(s) <= (Modulus - 1) \div 5

\* the rhythmPatterns of generateMotif
RhythmPatterns ==
    << << 3330, 3330, 3340 >>,
       << 2500, 2500, 5000 >>,
       << 2000, 2000, 2000, 2000, 2000 >>,
       << 1400, 1400, 1400, 1400, 1400, 1400, 1500 >>,
       << 1250, 3750, 5000 >>,
       << 5000, 2500, 2500 >> >>

\* an event of a motif, as far as its timing goes
TimedEvent(time, duration, tag) == [ time |-> time, duration |-> duration, tag |-> tag ]

RECURSIVE motifNotes(_, _, _, _)
\* the loop of generateMotif from note i on: each note starts where the one
\* before ended and lasts 0.7 of its rhythm value
motifNotes(rhythm, i, length, currentTime) ==
    IF i > length THEN << >>
    ELSE LET duration == rhythm[((i - 1) % Len(rhythm)) + 1]
         IN  << TimedEvent(currentTime, (duration * 7) \div 10, None) >>
               \o motifNotes(rhythm, i + 1, length, currentTime + duration)

\* generateMotif(scaleNotes, length, rng, config): the motif, and the state of
\* the generator afterwards (one draw for the rhythm pattern, four per note)
generateMotif(s, length) ==
    LET s1 == RngStep(s)
    IN  [ motif |-> motifNotes(RngChoice(s1, RhythmPatterns), 1, length, 0),
          state |-> RngSteps(s1, 4 * length) ]

RECURSIVE mutateMotif(_, _, _, _, _)
\* mutateMotif(motif, 0, scaleNotes, rng, config) from event i on: the events,
\* and the state of the generator afterwards
mutateMotif(motif, i, tension, s, mutated) ==
    IF i > Len(motif) THEN [ mutated |-> mutated, state |-> s ]
    ELSE LET s4    == RngSteps(s, 4)
             s5    == RngStep(s4)
             grace == BelowFifth(s5) /\ tension > 700
             main  == TimedEvent(motif[i].time, motif[i].duration, motif[i].tag)
         IN  IF grace
               THEN mutateMotif(motif, i + 1, tension, RngStep(s5),
                                mutated \o << TimedEvent(motif[i].time - 500, 500, Some("grace")),
                                              main >>)
               ELSE mutateMotif(motif, i + 1, tension, IF tension > 700 THEN s5 ELSE s4,
                                Append(mutated, main))

\* Math.max(...mutatedMotif.map(e => e.time + e.duration))
motifDuration(mutated) ==
    CHOOSE d \in { mutated[i].time + mutated[i].duration : i \in 1..Len(mutated) } :
        \A i \in 1..Len(mutated) : mutated[i].time + mutated[i].duration <= d

\* applyMicrotiming(time, amount, rng), u being the value of rng.next() in
\* thousandths: jitter = (u - 0.5) * amount * 0.1
applyMicrotiming(time, amount, u) ==
    IF amount = 0 THEN time
    ELSE LET jitter == ((u - 500) * amount) \div 1000
         IN  IF time + jitter > 0 THEN time + jitter ELSE 0

RECURSIVE microtimed(_, _, _, _)
\* events.forEach(e => e.time = this.applyMicrotiming(e.time, rhythmLoose, rng))
microtimed(events, i, amount, s) ==
    IF i > Len(events) THEN events
    ELSE IF amount = 0 THEN microtimed(events, i + 1, amount, s)
    ELSE LET s1 == RngStep(s)
         IN  microtimed([ events EXCEPT ![i].time = applyMicrotiming(@, amount, Milli(s1)) ],
                        i + 1, amount, s1)

RECURSIVE repetitions(_, _, _, _, _, _, _)
\* the loop over the repetitions of generate, from repetition rep on
repetitions(motif, rep, count, tension, currentTime, s, events) ==
    IF rep >= count THEN [ events |-> events, state |-> s ]
    ELSE LET m     == mutateMotif(motif, 1, tension, s, << >>)
             added == [ i \in 1..Len(m.mutated) |->
                          [ m.mutated[i] EXCEPT !.time = currentTime + @ ] ]
             after == currentTime + motifDuration(m.mutated)
             s1    == RngStep(m.state)
         IN  IF rep < count - 1
               THEN repetitions(motif, rep + 1, count, tension,
                                after + RngRange(s1, 1000, 5000), s1, events \o added)
               ELSE repetitions(motif, rep + 1, count, tension, after, m.state, events \o added)

\* FracturedLeadGenerator.generate(slotConfig, ...): the events' timing
fracturedLead(config) ==
    LET motifLength == 3 + (config.complexity * 4) \div 1000
        mo          == generateMotif(SeededRandom(config.seed), motifLength)
        count       == 2 + (config.density * 3) \div 1000
        all         == repetitions(mo.motif, 0, count, config.tension, 0, mo.state, << >>)
    IN  microtimed(all.events, 1, config.rhythmLoose, all.state)

----------------------------------------------------------------------------
(* LyricalMinimalGenerator: the times and durations of the events it generates,
   in ten-thousandths of a beat, and the loop length it chooses, for a config
   whose complexity is at most 0.5 (addAsymmetry, the arpeggio's way back down
   and the dyad played together all need a greater complexity) *)

\* rng.choice(array) for an array of any length
choice(s, array) == array[RngInt(s, 0, Len(array) - 1) + 1]

\* the patterns of generateSimpleCell
SimplePatterns ==
    << << 0, 10000, 20000, 30000 >>,
       << 0, 10000, 20000 >>,
       << 0, 5000, 10000, 15000, 20000 >>,
       << 0, 15000, 30000 >> >>

\* generateSimpleCell: one draw for the pattern, one per event for its velocity
generateSimpleCell(s) ==
    LET s1      == RngStep(s)
        pattern == choice(s1, SimplePatterns)
    IN  [ events |-> [ i \in 1..Len(pattern) |-> TimedEvent(pattern[i], 8000, None) ],
          state  |-> RngSteps(s1, Len(pattern)) ]

\* generateArpeggioCell: 3 + Math.floor(density) notes spread over four beats,
\* each lasting 1.2 times the distance to the next; it draws nothing
generateArpeggioCell(s, config) ==
    LET noteCount == 3 + config.density \div 1000
    IN  [ events |-> [ i \in 1..noteCount |->
                         TimedEvent(((i - 1) * 40000) \div noteCount, 48000 \div noteCount, None) ],
          state  |-> s ]

\* the durations generateMelodyCell chooses from
MelodyDurations == << 5000, 7500, 10000 >>

RECURSIVE melodyNotes(_, _, _, _, _)
\* the loop of generateMelodyCell from note i on: a draw for the duration of
\* every note but the last, one for the velocity, one for the step
melodyNotes(s, i, noteCount, currentTime, events) ==
    IF i > noteCount THEN [ events |-> events, state |-> s ]
    ELSE LET s1       == IF i = noteCount THEN s ELSE RngStep(s)
             duration == IF i = noteCount THEN 15000 ELSE choice(s1, MelodyDurations)
         IN  melodyNotes(RngSteps(s1, 2), i + 1, noteCount, currentTime + duration,
                         Append(events, TimedEvent(currentTime, (duration * 9) \div 10, None)))

\* generateMelodyCell: 4 + Math.floor(density * 2) notes
generateMelodyCell(s, config) ==
    melodyNotes(s, 1, 4 + (config.density * 2) \div 1000, 0, << >>)

\* generateDyadCell with the notes alternating: one draw for the interval, one
\* per beat for the velocity
generateDyadCell(s) ==
    [ events |-> [ i \in 1..4 |-> TimedEvent((i - 1) * 10000, 9000, None) ],
      state  |-> RngSteps(s, 5) ]

\* the cellTypes of generate
CellTypes == << "simple", "arpeggio", "melody", "dyad" >>

\* Math.max(...events.map(e => e.time + e.duration)), in ten-thousandths of a beat
totalDuration(events) == motifDuration(events)

\* loopLength = totalDuration <= 2.5 ? 2 : 4, in beats
lyricalLoopLength(total) == IF total <= 25000 THEN 2 ELSE 4

\* LyricalMinimalGenerator.generate(slotConfig, ...): the events' timing, the
\* loop length of the Gesture and the cell it chose
lyricalMinimal(config) ==
    LET s1       == RngStep(SeededRandom(config.seed))
        cellType == choice(s1, CellTypes)
        cell     == CASE cellType = "simple"   -> generateSimpleCell(s1)
                      [] cellType = "arpeggio" -> generateArpeggioCell(s1, config)
                      [] cellType = "melody"   -> generateMelodyCell(s1, config)
                      [] cellType = "dyad"     -> generateDyadCell(s1)
        events   == microtimed(cell.events, 1, config.rhythmLoose \div 2, cell.state)
    IN  [ events |-> events,
          loopLengthBeats |-> Some(lyricalLoopLength(totalDuration(events))),
          display |-> cellType ]

----------------------------------------------------------------------------
(* KeyboardGesturePalette *)

\* the slot ids the callers use: the palette's range and one id outside it
SlotIds == (minSlot .. maxSlot) \cup {maxSlot + 1}

\* the keys of a Map in ascending order (slotConfigs is filled in ascending order
\* and never loses a key, so this is its iteration order)
RECURSIVE KeysAscending(_)
KeysAscending(S) ==
    IF S = {} THEN << >>
    ELSE LET m == CHOOSE x \in S : \A y \in S : x <= y
         IN  << m >> \o KeysAscending(S \ {m})

\* Set.has on the insertion-ordered lockedSlots
IsLockedIn(locked, slotId) == \E i \in 1..Len(locked) : locked[i] = slotId

\* the identity of a Gesture generated for a slot: one that neither the cache nor a
\* playback state holds for that slot
NewGestureObj(slotId) ==
    LET held == { gestures[k].obj : k \in DOMAIN gestures \cap {slotId} }
                \cup { Get(heap[i]).gesture.obj :
                         i \in { j \in DOMAIN heap : IsSome(heap[j])
                                                     /\ Get(heap[j]).gesture.slotId = slotId } }
    IN  CHOOSE n \in 0..(Cardinality(held)) : n \notin held

RECURSIVE initializeSlotsFrom(_, _, _, _, _, _)
\* for (let slotId = this.minSlot; slotId <= this.maxSlot; slotId++) { ... }
initializeSlotsFrom(slotId, s, lo, hi, dist, acc) ==
    IF slotId > hi THEN acc
    ELSE LET c == createSlotConfig(0, slotId, s, hi - lo + 1, lo, dist)
         IN  initializeSlotsFrom(slotId + 1, c.rng, lo, hi, dist, acc @@ (slotId :> c.config))

\* faulty variant of initializeSlots: the generator is seeded with a value that
\* differs from call to call
initializeSlotsUnseeded(lo, hi, dist) ==
    initializeSlotsFrom(lo, SeededRandom(MasterSeed + budget), lo, hi, dist, << >>)

\* initializeSlots(): one generator, seeded with the master seed, for the whole layout
initializeSlots(lo, hi, dist) ==
    initializeSlotsFrom(lo, SeededRandom(MasterSeed), lo, hi, dist, << >>)

\* faulty variant of regenerateAll: the locks are never respected
regenerateAllIgnoringLocks(configs, gests, locked, hc, respectLocks) ==
    [ k \in DOMAIN configs |-> Generate(NewGestureObj(k), configs[k], hc) ]

\* faulty variant of regenerateAll: the cache is cleared whatever respectLocks
\* is, and the locked slots are skipped
regenerateAllClearing(configs, gests, locked, hc, respectLocks) ==
    [ k \in { j \in DOMAIN configs : ~(respectLocks /\ IsLockedIn(locked, j)) } |->
        Generate(NewGestureObj(k), configs[k], hc) ]

\* regenerateAll({ respectLocks }): the gestures cache afterwards
regenerateAll(configs, gests, locked, hc, respectLocks) ==
    LET kept == IF respectLocks THEN gests ELSE << >>
    IN  [ k \in DOMAIN configs \cup DOMAIN kept |->
            IF k \notin DOMAIN configs THEN kept[k]
            ELSE IF respectLocks /\ IsLockedIn(locked, k) /\ k \in DOMAIN kept THEN kept[k]
            ELSE Generate(NewGestureObj(k), configs[k], hc) ]

\* faulty variant of regenerateSlot: a locked slot is regenerated like any other
regenerateSlotIgnoringLock(configs, gests, locked, hc, slotId) ==
    IF slotId \notin DOMAIN configs THEN [ gestures |-> gests, result |-> None ]
    ELSE LET g == Generate(NewGestureObj(slotId), configs[slotId], hc)
         IN  [ gestures |-> (slotId :> g) @@ gests, result |-> Some(g) ]

\* regenerateSlot(slotId): the gestures cache afterwards and the value returned
regenerateSlot(configs, gests, locked, hc, slotId) ==
    IF slotId \notin DOMAIN configs THEN [ gestures |-> gests, result |-> None ]
    ELSE IF IsLockedIn(locked, slotId) /\ slotId \in DOMAIN gests
      THEN [ gestures |-> gests, result |-> Some(gests[slotId]) ]
      ELSE LET g == Generate(NewGestureObj(slotId), configs[slotId], hc)
           IN  [ gestures |-> (slotId :> g) @@ gests, result |-> Some(g) ]

RECURSIVE regenerateUnlockedFrom(_, _, _, _, _)
\* regenerateUnlockedSlots(): for (const [slotId] of this.slotConfigs) { if locked continue; regenerateSlot }
regenerateUnlockedFrom(keys, configs, gests, locked, hc) ==
    IF keys = << >> THEN gests
    ELSE IF IsLockedIn(locked, Head(keys))
      THEN regenerateUnlockedFrom(Tail(keys), configs, gests, locked, hc)
      ELSE regenerateUnlockedFrom(Tail(keys), configs,
                regenerateSlot(configs, gests, locked, hc, Head(keys)).gestures, locked, hc)

regenerateUnlockedSlots(configs, gests, locked, hc) ==
    regenerateUnlockedFrom(KeysAscending(DOMAIN configs), configs, gests, locked, hc)

\* Object.assign(config, updates): the same object, its fields overwritten
ObjectAssign(config, updates) ==
    [ f \in DOMAIN config |-> IF f \in DOMAIN updates THEN updates[f] ELSE config[f] ]

RECURSIVE randomWeightsFrom(_, _, _)
\* for (const style of availableStyles) { weight = rng.range(0.1, 0.4); ... }
randomWeightsFrom(styles, s, acc) ==
    IF styles = << >> THEN [ weights |-> acc, rng |-> s ]
    ELSE LET s1 == RngStep(s)
         IN  randomWeightsFrom(Tail(styles), s1,
                 Append(acc, [ style |-> Head(styles), weight |-> RngRange(s1, 100, 400) ]))

\* the normalised distribution randomizeDistribution() draws, and the generator afterwards
randomDistribution(s) ==
    LET drawn == randomWeightsFrom(RegisteredStyles, s, << >>)
        total == SumWeights(drawn.weights)
    IN  [ weights |-> [ i \in 1..Len(drawn.weights) |->
                          [ style  |-> drawn.weights[i].style,
                            weight |-> (drawn.weights[i].weight * 1000) \div total ] ],
          rng |-> drawn.rng ]

RECURSIVE randomizeFromEvery(_, _, _, _, _, _, _)
\* faulty variant of randomizeFrom: locked slots get a new config like the others
randomizeFromEvery(keys, s, configs, gests, locked, hc, dist) ==
    IF keys = << >> THEN [ slotConfigs |-> configs, gestures |-> gests ]
    ELSE LET k  == Head(keys)
             c  == createSlotConfig(NewConfigObj(slotConfigs, k), k, s,
                                    maxSlot - minSlot + 1, minSlot, dist)
             cs == (k :> c.config) @@ configs
         IN  randomizeFromEvery(Tail(keys), c.rng, cs,
                                regenerateSlot(cs, gests, locked, hc, k).gestures, locked, hc, dist)

RECURSIVE randomizeFrom(_, _, _, _, _, _, _)
\* for (const [slotId] of this.slotConfigs) { if locked continue; createSlotConfig; set; regenerateSlot }
randomizeFrom(keys, s, configs, gests, locked, hc, dist) ==
    IF keys = << >> THEN [ slotConfigs |-> configs, gestures |-> gests ]
    ELSE IF IsLockedIn(locked, Head(keys))
      THEN randomizeFrom(Tail(keys), s, configs, gests, locked, hc, dist)
      ELSE LET k  == Head(keys)
               c  == createSlotConfig(NewConfigObj(slotConfigs, k), k, s,
                                      maxSlot - minSlot + 1, minSlot, dist)
               cs == (k :> c.config) @@ configs
           IN  randomizeFrom(Tail(keys), c.rng, cs,
                             regenerateSlot(cs, gests, locked, hc, k).gestures, locked, hc, dist)

\* randomizeDistribution() with Date.now() = dateNow
randomizeDistribution(dateNow) ==
    LET d == randomDistribution(SeededRandom(dateNow))
        r == randomizeFrom(KeysAscending(DOMAIN slotConfigs), d.rng, slotConfigs, gestures,
                           lockedSlots, harmonicContext, d.weights)
    IN  [ styleDistribution |-> d.weights, slotConfigs |-> r.slotConfigs,
          gestures |-> r.gestures ]

RECURSIVE InsertByDistance(_, _, _)
\* the place of c in a list sorted by |slotId - target|, after every entry that is not farther
InsertByDistance(sorted, c, target) ==
    IF sorted = << >> THEN << c >>
    ELSE IF Abs(Head(sorted).slotId - target) <= Abs(c.slotId - target)
      THEN << Head(sorted) >> \o InsertByDistance(Tail(sorted), c, target)
      ELSE << c >> \o sorted

RECURSIVE SortByDistance(_, _, _)
\* [...references].sort((a, b) => Math.abs(a.slotId - slotId) - Math.abs(b.slotId - slotId)), stable
SortByDistance(references, target, acc) ==
    IF references = << >> THEN acc
    ELSE SortByDistance(Tail(references), target, InsertByDistance(acc, Head(references), target))

\* faulty variant of ReferenceCandidates: the sorted list is not cut to three
ReferenceCandidatesUncut(slotId, references) == SortByDistance(references, slotId, << >>)

\* the candidates of pickReferenceConfig: sorted.slice(0, Math.max(1, Math.min(3, sorted.length)))
ReferenceCandidates(slotId, references) ==
    LET sorted == SortByDistance(references, slotId, << >>)
    IN  SubSeq(sorted, 1, Min(Len(sorted), Max(1, Min(3, Len(sorted)))))

\* pickReferenceConfig(slotId, references, rng): the reference and the generator afterwards
pickReferenceConfig(slotId, references, s) ==
    LET s1 == RngStep(s)
    IN  [ reference |-> RngChoice(s1, ReferenceCandidates(slotId, references)), rng |-> s1 ]

\* blend(base, target, strength) with the value next() returned, all in thousandths
blend(base, target, strength, s) ==
    clamp(base + ((target - base) * strength) \div 1000 + ((Milli(s) - 500) * 150) \div 1000)

\* jitter(value, amount) with the value next() returned, all in thousandths
jitter(value, amount, s) ==
    clamp(value + ((Milli(s) - 500) * amount) \div 1000)

\* createEvolvedConfig(baseConfig, referenceConfig, rng): the config and the generator afterwards
createEvolvedConfig(obj, baseConfig, referenceConfig, s) ==
    LET s1 == RngStep(s)
        s2 == RngStep(s1)
        s3 == RngStep(s2)
        s4 == RngStep(s3)
        s5 == RngStep(s4)
        s6 == RngStep(s5)
    IN  [ config |-> SlotConfig(obj, baseConfig.slotId, referenceConfig.styleId, baseConfig.role,
                                blend(baseConfig.density, referenceConfig.density, 600, s1),
                                blend(baseConfig.complexity, referenceConfig.complexity, 600, s2),
                                blend(baseConfig.tension, referenceConfig.tension, 400, s3),
                                baseConfig.registerShift,
                                jitter(referenceConfig.rhythmLoose, 100, s4),
                                jitter(referenceConfig.motifVariation, 200, s5),
                                SeedOf(s6)),
          rng |-> s6 ]

\* Array.from(this.lockedSlots).map(slotId => this.slotConfigs.get(slotId)).filter(Boolean)
LockedConfigs(locked, configs) ==
    LET present == SelectSeq(locked, LAMBDA k : k \in DOMAIN configs)
    IN  [ i \in 1..Len(present) |-> configs[present[i]] ]

RECURSIVE evolveFrom(_, _, _, _, _, _, _)
\* for (const [slotId, config] of this.slotConfigs) { if locked continue; pick; evolve; set; regenerateSlot }
evolveFrom(keys, s, configs, gests, locked, hc, lockedConfigs) ==
    IF keys = << >> THEN [ slotConfigs |-> configs, gestures |-> gests ]
    ELSE IF IsLockedIn(locked, Head(keys))
      THEN evolveFrom(Tail(keys), s, configs, gests, locked, hc, lockedConfigs)
      ELSE LET k  == Head(keys)
               r  == pickReferenceConfig(k, lockedConfigs, s)
               c  == createEvolvedConfig(NewConfigObj(slotConfigs, k), configs[k],
                                         r.reference, r.rng)
               cs == (k :> c.config) @@ configs
           IN  evolveFrom(Tail(keys), c.rng, cs,
                          regenerateSlot(cs, gests, locked, hc, k).gestures, locked, hc,
                          lockedConfigs)

\* faulty variant of evolveUnlockedSlots: without a locked config it draws new
\* configs instead of falling back to regeneration
evolveUnlockedSlotsRedrawing(dateNow) ==
    LET lockedConfigs == LockedConfigs(lockedSlots, slotConfigs)
        r == randomizeDistribution(dateNow)
    IN  IF Len(lockedConfigs) = 0
          THEN [ slotConfigs |-> r.slotConfigs, gestures |-> r.gestures ]
          ELSE evolveFrom(KeysAscending(DOMAIN slotConfigs), SeededRandom(dateNow),
                          slotConfigs, gestures, lockedSlots, harmonicContext, lockedConfigs)

\* evolveUnlockedSlots() with Date.now() = dateNow
evolveUnlockedSlots(dateNow) ==
    LET lockedConfigs == LockedConfigs(lockedSlots, slotConfigs)
    IN  IF Len(lockedConfigs) = 0
          THEN [ slotConfigs |-> slotConfigs,
                 gestures |-> regenerateUnlockedSlots(slotConfigs, gestures, lockedSlots,
                                                      harmonicContext) ]
          ELSE evolveFrom(KeysAscending(DOMAIN slotConfigs), SeededRandom(dateNow),
                          slotConfigs, gestures, lockedSlots, harmonicContext, lockedConfigs)

----------------------------------------------------------------------------
(* The insertion-ordered Map activeGestures: a list of entries, one per key *)

\* Map.has(key)
MapHas(m, key) == \E i \in 1..Len(m) : m[i].slot = key

\* Map.get(key), for a key the map has
MapGet(m, key) == m[CHOOSE i \in 1..Len(m) : m[i].slot = key].state

\* Map.set(key, value): in place when the key is there, at the end otherwise
MapSet(m, key, value) ==
    IF MapHas(m, key)
      THEN [ i \in 1..Len(m) |-> IF m[i].slot = key THEN [ slot |-> key, state |-> value ]
                                                   ELSE m[i] ]
      ELSE Append(m, [ slot |-> key, state |-> value ])

\* Map.delete(key)
MapDelete(m, key) == SelectSeq(m, LAMBDA e : e.slot # key)

\* Array.from(map.keys())
MapKeys(m) == [ i \in 1..Len(m) |-> m[i].slot ]

\* Set.add / Set.delete on the insertion-ordered activeNotes
SetAdd(q, x) == IF x \in SeqToSet(q) THEN q ELSE Append(q, x)

SetDelete(q, x) == SelectSeq(q, LAMBDA y : y # x)

----------------------------------------------------------------------------
(* The host's timers *)

\* the tempos the host sets: at both, a beat is a whole number of clock steps
Tempos == { DefaultTempo, DefaultTempo \div 2 }

\* PerformanceContext.getMsPerBeat(): 60000 / this.tempo
getMsPerBeat(bpm) == 60000 \div bpm

\* the clock advances in steps of one beat at the default tempo; a timer that
\* falls between two steps runs late, at the next one
TickMs == getMsPerBeat(DefaultTempo)

\* the handle setTimeout / setInterval returns: it names one registration, that
\* of callback kind for event ev of playback state sid, armed in loop iteration iter
TimerId(sid, kind, ev, iter) == << sid, kind, ev, iter >>

\* setTimeout / setInterval: the entry a call registers.  kind is the callback
\* ("on": playEvent, "off": stopEvent, "loop": the loop restart), state the
\* playback state its closure holds, ev the event's index, mspb the ms per beat
\* the closure captured, iter the loop iteration that armed it.
Timer(id, kind, state, ev, fireAt, period, mspb, iter) ==
    [ id |-> id, kind |-> kind, state |-> state, ev |-> ev, fireAt |-> fireAt,
      period |-> period, mspb |-> mspb, iter |-> iter ]

\* faulty variant of ClearTimers: clearing a handle does nothing
ClearTimersNothing(ts, ids) == ts

\* clearTimeout / clearInterval of a set of handles
ClearTimers(ts, ids) == SelectSeq(ts, LAMBDA tm : tm.id \notin ids)

\* the host's timer list is kept in the order the timers run: by due time, and
\* in registration order among those due at the same time
InsertTimer(ts, tm) ==
    LET before == SelectSeq(ts, LAMBDA x : x.fireAt <= tm.fireAt)
        after  == SelectSeq(ts, LAMBDA x : x.fireAt > tm.fireAt)
    IN  before \o << tm >> \o after

\* the timer the event loop runs next: the first of the list, once it is due
DueIndex(ts) == IF ts # << >> /\ ts[1].fireAt <= now THEN {1} ELSE {}

----------------------------------------------------------------------------
(* GesturePlaybackState *)

\* faulty variant of GesturePlaybackState: forceOneShot is ignored
GesturePlaybackStateLooping(gesture, slotId, velocity, startTime, forceOneShot) ==
    [ gesture |-> gesture, slotId |-> slotId, velocity |-> velocity, startTime |-> startTime,
      isLooping |-> IsSome(gesture.loopLengthBeats),
      loopCount |-> 0, activeNotes |-> << >>, timeoutIds |-> {}, intervalId |-> None ]

\* new GesturePlaybackState(gesture, slotId, velocity, startTime, { forceOneShot })
GesturePlaybackState(gesture, slotId, velocity, startTime, forceOneShot) ==
    [ gesture |-> gesture, slotId |-> slotId, velocity |-> velocity, startTime |-> startTime,
      isLooping |-> (~forceOneShot /\ IsSome(gesture.loopLengthBeats)),
      loopCount |-> 0, activeNotes |-> << >>, timeoutIds |-> {}, intervalId |-> None ]

\* faulty variant of cleanup: the interval is left running
cleanupTimeoutsOnly(st, ts) ==
    [ timers |-> ClearTimers(ts, st.timeoutIds),
      state  |-> [ st EXCEPT !.timeoutIds = {}, !.intervalId = None ] ]

\* faulty variant of cleanup: every pending timer of the player is cleared
cleanupEveryTimer(st, ts) ==
    [ timers |-> << >>,
      state  |-> [ st EXCEPT !.timeoutIds = {}, !.intervalId = None ] ]

\* cleanup(): clearTimeout for every id in timeoutIds, clearInterval(intervalId);
\* the timers left and the state afterwards
cleanup(st, ts) ==
    [ timers |-> ClearTimers(ts, st.timeoutIds \cup SeqToSet(st.intervalId)),
      state  |-> [ st EXCEPT !.timeoutIds = {}, !.intervalId = None ] ]

\* a playback state nothing refers to any more (neither the active map nor a
\* pending timer's closure) is gone
Collect(m, h, ts) ==
    [ i \in DOMAIN h |->
        IF (\E j \in 1..Len(m) : m[j].state = i) \/ (\E j \in 1..Len(ts) : ts[j].state = i)
          THEN h[i] ELSE None ]

----------------------------------------------------------------------------
(* EventGesturePlayer *)

RECURSIVE armEventsAtTempo(_, _, _, _, _, _, _)
\* faulty variant of armEvents: the delays are computed from the tempo at the
\* time of arming, not from the ms per beat captured when the slot was triggered
armEventsAtTempo(events, i, sid, mspb, iter, ts, ids) ==
    IF i > Len(events) THEN [ timers |-> ts, timeoutIds |-> ids ]
    ELSE LET current    == 60000 \div tempo
             delayMs    == events[i].time * current
             durationMs == events[i].duration * current
             onId       == << sid, "on", i, iter >>
             ts1        == SelectSeq(ts, LAMBDA x : x.fireAt <= now + delayMs)
                             \o << [ id |-> onId, kind |-> "on", state |-> sid, ev |-> i,
                                     fireAt |-> now + delayMs, period |-> 0, mspb |-> current,
                                     iter |-> iter ] >>
                             \o SelectSeq(ts, LAMBDA x : x.fireAt > now + delayMs)
             offId      == << sid, "off", i, iter >>
             offAt      == now + delayMs + durationMs
             ts2        == IF durationMs > 0
                             THEN SelectSeq(ts1, LAMBDA x : x.fireAt <= offAt)
                                    \o << [ id |-> offId, kind |-> "off", state |-> sid, ev |-> i,
                                            fireAt |-> offAt, period |-> 0, mspb |-> current,
                                            iter |-> iter ] >>
                                    \o SelectSeq(ts1, LAMBDA x : x.fireAt > offAt)
                             ELSE ts1
             ids2       == IF durationMs > 0 THEN ids \cup {onId, offId} ELSE ids \cup {onId}
         IN  armEventsAtTempo(events, i + 1, sid, mspb, iter, ts2, ids2)

RECURSIVE armEventsNoRelease(_, _, _, _, _, _, _)
\* faulty variant of armEvents: no release timer is armed
armEventsNoRelease(events, i, sid, mspb, iter, ts, ids) ==
    IF i > Len(events) THEN [ timers |-> ts, timeoutIds |-> ids ]
    ELSE LET delayMs == events[i].time * mspb
             onId    == << sid, "on", i, iter >>
             ts1     == SelectSeq(ts, LAMBDA x : x.fireAt <= now + delayMs)
                          \o << [ id |-> onId, kind |-> "on", state |-> sid, ev |-> i,
                                  fireAt |-> now + delayMs, period |-> 0, mspb |-> mspb,
                                  iter |-> iter ] >>
                          \o SelectSeq(ts, LAMBDA x : x.fireAt > now + delayMs)
         IN  armEventsNoRelease(events, i + 1, sid, mspb, iter, ts1, ids \cup {onId})

RECURSIVE armEvents(_, _, _, _, _, _, _)
\* for (const event of gesture.events) { setTimeout(playEvent, delayMs);
\*     if (durationMs > 0) setTimeout(stopEvent, delayMs + durationMs); }
\* the timers and the state's timeoutIds afterwards
armEvents(events, i, sid, mspb, iter, ts, ids) ==
    IF i > Len(events) THEN [ timers |-> ts, timeoutIds |-> ids ]
    ELSE LET delayMs    == events[i].time * mspb
             durationMs == events[i].duration * mspb
             onId       == TimerId(sid, "on", i, iter)
             ts1        == InsertTimer(ts, Timer(onId, "on", sid, i, now + delayMs, 0, mspb, iter))
             offId      == TimerId(sid, "off", i, iter)
             ts2        == IF durationMs > 0
                             THEN InsertTimer(ts1, Timer(offId, "off", sid, i,
                                                         now + delayMs + durationMs, 0, mspb, iter))
                             ELSE ts1
             ids2       == IF durationMs > 0 THEN ids \cup {onId, offId} ELSE ids \cup {onId}
         IN  armEvents(events, i + 1, sid, mspb, iter, ts2, ids2)

\* scheduleGesture(state): the timers and the state afterwards
scheduleGesture(sid, st, ts) ==
    LET msPerBeat == getMsPerBeat(tempo)
        armed     == armEvents(st.gesture.events, 1, sid, msPerBeat, 0, ts, st.timeoutIds)
        loops     == st.isLooping /\ IsSome(st.gesture.loopLengthBeats)
                       /\ Get(st.gesture.loopLengthBeats) # 0
        loopMs    == Get(st.gesture.loopLengthBeats) * msPerBeat
        intId     == TimerId(sid, "loop", 0, 0)
    IN  IF loops
          THEN [ timers |-> InsertTimer(armed.timers,
                                        Timer(intId, "loop", sid, 0, now + loopMs, loopMs, msPerBeat, 0)),
                 state  |-> [ st EXCEPT !.timeoutIds = armed.timeoutIds,
                                        !.intervalId = Some(intId) ] ]
          ELSE [ timers |-> armed.timers,
                 state  |-> [ st EXCEPT !.timeoutIds = armed.timeoutIds ] ]

\* faulty variant of finalVelocity: the result is not clamped
finalVelocityUnclamped(event, globalVelocity) ==
    LET velocity == (event.velocity * globalVelocity) \div 1000
        factor   == IF event.tag = Some("ghost") THEN 400
                    ELSE IF event.tag = Some("grace") THEN 600
                    ELSE IF event.tag = Some("accent") THEN 1200
                    ELSE IF event.tag = Some("pedal") THEN 700
                    ELSE 1000
    IN  (velocity * factor) \div 1000

\* the velocity playEvent sends: event.velocity * globalVelocity, times the tag's
\* factor, clamped to [0.1, 1]; thousandths
finalVelocity(event, globalVelocity) ==
    LET velocity == (event.velocity * globalVelocity) \div 1000
        factor   == IF event.tag = Some("ghost") THEN 400
                    ELSE IF event.tag = Some("grace") THEN 600
                    ELSE IF event.tag = Some("accent") THEN 1200
                    ELSE IF event.tag = Some("pedal") THEN 700
                    ELSE 1000
    IN  Max(100, Min(1000, (velocity * factor) \div 1000))

\* engine calls
noteOn(note, velocity) == [ op |-> "noteOn", note |-> note, velocity |-> velocity ]

noteOff(note) == [ op |-> "noteOff", note |-> note, velocity |-> 0 ]

allNotesOff == [ op |-> "allNotesOff", note |-> 0, velocity |-> 0 ]

\* faulty variant of releaseSlot: the sounding notes are forgotten, not stopped
releaseSlotSilent(pl, slotId) ==
    IF ~MapHas(pl.map, slotId) THEN [ map |-> pl.map, heap |-> pl.heap, timers |-> pl.timers,
                                      calls |-> << >> ]
    ELSE LET sid == MapGet(pl.map, slotId)
             st  == Get(pl.heap[sid])
             cl  == cleanup([ st EXCEPT !.activeNotes = << >> ], pl.timers)
         IN  [ map    |-> MapDelete(pl.map, slotId),
               heap   |-> [ pl.heap EXCEPT ![sid] = Some(cl.state) ],
               timers |-> cl.timers,
               calls  |-> << >> ]

\* releaseSlot(slotId) on a player (map, heap, timers): the player afterwards and
\* the engine calls issued
releaseSlot(pl, slotId) ==
    IF ~MapHas(pl.map, slotId) THEN [ map |-> pl.map, heap |-> pl.heap, timers |-> pl.timers,
                                      calls |-> << >> ]
    ELSE LET sid   == MapGet(pl.map, slotId)
             st    == Get(pl.heap[sid])
             calls == [ i \in 1..Len(st.activeNotes) |-> noteOff(st.activeNotes[i]) ]
             cl    == cleanup([ st EXCEPT !.activeNotes = << >> ], pl.timers)
         IN  [ map    |-> MapDelete(pl.map, slotId),
               heap   |-> [ pl.heap EXCEPT ![sid] = Some(cl.state) ],
               timers |-> cl.timers,
               calls  |-> calls ]

\* faulty variant of releaseEach: the iteration ends after the first slot, as if
\* deleting the entry just visited ended it
releaseEachFirst(pl, keys) ==
    IF keys = << >> THEN [ map |-> pl.map, heap |-> pl.heap, timers |-> pl.timers,
                           calls |-> << >> ]
    ELSE releaseSlot(pl, Head(keys))

RECURSIVE releaseEach(_, _)
\* for (const slotId of this.activeGestures.keys()) this.releaseSlot(slotId):
\* deleting the entry just visited does not end a Map iteration
releaseEach(pl, keys) ==
    IF keys = << >> THEN [ map |-> pl.map, heap |-> pl.heap, timers |-> pl.timers,
                           calls |-> << >> ]
    ELSE LET one  == releaseSlot(pl, Head(keys))
             rest == releaseEach(one, Tail(keys))
         IN  [ rest EXCEPT !.calls = one.calls \o rest.calls ]

\* releaseAll(): every slot, then engine.allNotesOff()
releaseAll(pl) ==
    LET r == releaseEach(pl, MapKeys(pl.map))
    IN  [ r EXCEPT !.calls = Append(r.calls, allNotesOff) ]

----------------------------------------------------------------------------
(* PolyphonicEngine *)

\* new VoiceState(synth, index); indices count from 1 here
VoiceState(index) == [ index |-> index, note |-> None, active |-> FALSE, startTime |-> 0 ]

\* initVoices(): a new pool of maxVoices voices
initVoices(count) == [ i \in 1..count |-> VoiceState(i) ]

\* new PolyphonicEngine(audioContext, maxVoices); activeNotes maps note -> voice index
PolyphonicEngine(maxVoices) ==
    [ maxVoices |-> maxVoices, voices |-> initVoices(maxVoices), activeNotes |-> << >> ]

\* findVoiceByNote(note): the index of this.voices[this.activeNotes.get(note)],
\* None when the note is not mapped or the pool has no voice of that index
findVoiceByNote(e, note) ==
    IF note \in DOMAIN e.activeNotes /\ e.activeNotes[note] \in 1..Len(e.voices)
      THEN Some(e.activeNotes[note])
      ELSE None

\* allocateVoice(): the first free voice, else the oldest one (the first of the
\* oldest), which is released; the index and the pool afterwards
allocateVoice(e) ==
    LET free   == { i \in 1..Len(e.voices) : ~e.voices[i].active }
        first  == CHOOSE i \in free : \A j \in free : i <= j
        oldest == CHOOSE i \in 1..Len(e.voices) :
                     /\ \A j \in 1..Len(e.voices) : e.voices[i].startTime <= e.voices[j].startTime
                     /\ \A j \in 1..(i - 1) : e.voices[j].startTime > e.voices[i].startTime
    IN  IF free # {}
          THEN [ index |-> first, voices |-> e.voices ]
          ELSE [ index |-> oldest, voices |-> [ e.voices EXCEPT ![oldest].active = FALSE ] ]

\* faulty variant of the engine's noteOn: a voice is allocated for every call
engineNoteOnAllocating(e, note, time) ==
    LET alloc == allocateVoice(e)
    IN  [ e EXCEPT !.activeNotes = (note :> alloc.index) @@ @,
                   !.voices = [ alloc.voices EXCEPT ![alloc.index] =
                                  [ @ EXCEPT !.note = Some(note), !.active = TRUE,
                                             !.startTime = time ] ] ]

\* PolyphonicEngine.noteOn(note, velocity) at ctx.currentTime = time
engineNoteOn(e, note, time) ==
    LET found == findVoiceByNote(e, note)
        alloc == allocateVoice(e)
        index == IF IsSome(found) THEN Get(found) ELSE alloc.index
        pool  == IF IsSome(found) THEN e.voices ELSE alloc.voices
    IN  [ e EXCEPT !.activeNotes = (note :> index) @@ @,
                   !.voices = [ pool EXCEPT ![index] =
                                  [ @ EXCEPT !.note = Some(note), !.active = TRUE,
                                             !.startTime = time ] ] ]

\* faulty variant of the engine's noteOff: every voice is released
engineNoteOffEvery(e, note) ==
    [ e EXCEPT !.voices = [ i \in 1..Len(@) |-> [ @[i] EXCEPT !.active = FALSE ] ],
               !.activeNotes = [ n \in DOMAIN @ \ {note} |-> @[n] ] ]

\* PolyphonicEngine.noteOff(note)
engineNoteOff(e, note) ==
    LET found == findVoiceByNote(e, note)
    IN  IF IsSome(found)
          THEN [ e EXCEPT !.voices[Get(found)].active = FALSE,
                          !.activeNotes = [ n \in DOMAIN @ \ {note} |-> @[n] ] ]
          ELSE e

\* PolyphonicEngine.allNotesOff()
engineAllNotesOff(e) ==
    [ e EXCEPT !.voices = [ i \in 1..Len(@) |-> [ @[i] EXCEPT !.active = FALSE ] ],
               !.activeNotes = << >> ]

\* PolyphonicEngine.setPolyphony(count): a new pool; activeNotes is left as it is
setPolyphony(e, count) ==
    IF e.maxVoices = count THEN e
    ELSE LET n == Max(1, Min(16, count))
         IN  [ e EXCEPT !.maxVoices = n, !.voices = initVoices(n) ]

----------------------------------------------------------------------------
(* Inputs *)

\* trigger velocities, thousandths
Velocities == { 1000 }

\* values of Date.now() (SeededRandom reduces them modulo 2147483647)
DateNows == { 1700000000, 1700000123 }

\* roots and scales the host selects
Roots == { "C", "D" }

Scales == { "major", "minor" }

\* the updates updateSlotConfig is called with
Updates ==
    << [ styleId |-> "ambientTexture" ],
       [ styleId |-> "lyricalMinimal" ],
       [ styleId |-> "aliceCascade", density |-> 900 ] >>

Call(op, slot, args, result) == [ op |-> op, slot |-> slot, args |-> args, result |-> result ]

----------------------------------------------------------------------------
(* Initial state: new KeyboardGesturePalette({ minSlot, maxSlot }) and
   new EventGesturePlayer(engine, palette) *)

\* everything but the gestures cache, the player's palette reference and the
\* SeededRandom instances under test; the host builds new PolyphonicEngine(ctx, 8)
InitHostWith(slots, ops, voices) ==
    /\ budget = ops
    /\ engine = PolyphonicEngine(voices)
    /\ minSlot = DefaultMinSlot
    /\ maxSlot = DefaultMinSlot + slots - 1
    /\ root = "C"
    /\ scale = "major"
    /\ tempo = DefaultTempo
    /\ styleDistribution = InitialDistribution
    /\ lockedSlots = << >>
    /\ slotConfigs = initializeSlots(minSlot, maxSlot, InitialDistribution)
    /\ harmonicContext = HarmonicContext("C", "major")
    /\ activeGestures = << >>
    /\ heap = [ i \in 1..((slots + 1) * MaxStates) |-> None ]
    /\ timers = << >>
    /\ now = 0
    /\ engineCalls = << >>
    /\ lastCall = Call("constructor", 0, << >>, None)
    /\ sinceTrigger = [ k \in (minSlot .. maxSlot + 1) |-> None ]

\* the host as it constructs its engine: new PolyphonicEngine(this.audioContext, 8)
InitHost(slots, ops) == InitHostWith(slots, ops, DefaultVoices)

\* the constructor's regenerateAll()
InitGestures ==
    gestures = [ k \in DOMAIN slotConfigs |-> Generate(0, slotConfigs[k], harmonicContext) ]

\* new EventGesturePlayer(engine, palette), as the host constructs it
InitWith(slots, ops) ==
    /\ InitHost(slots, ops)
    /\ InitGestures
    /\ palette = TRUE
    /\ rng = RngPair(MasterSeed)

Init == InitWith(PlayerSlots, PlayerOps)

InitPalette == InitWith(PaletteSlots, PaletteOps)

InitEvolve == InitWith(EvolveSlots, EvolveOps)

----------------------------------------------------------------------------
(* Palette operations *)

\* faulty variant of toggleSlotLock: a locked slot is not unlocked
toggleSlotLockAddOnly(locked, slotId) ==
    IF IsLockedIn(locked, slotId)
      THEN [ lockedSlots |-> locked, result |-> TRUE ]
      ELSE [ lockedSlots |-> Append(locked, slotId), result |-> TRUE ]

\* toggleSlotLock(slotId) on the locked set: the set afterwards and the value returned
toggleSlotLock(locked, slotId) ==
    IF IsLockedIn(locked, slotId)
      THEN [ lockedSlots |-> SelectSeq(locked, LAMBDA k : k # slotId), result |-> FALSE ]
      ELSE [ lockedSlots |-> Append(locked, slotId), result |-> TRUE ]

\* the host calls toggleSlotLock(slotId)
ToggleSlotLock(slotId) ==
    /\ budget > 0
    /\ LET r == toggleSlotLock(lockedSlots, slotId)
       IN  /\ lockedSlots' = r.lockedSlots
           /\ lastCall' = Call("toggleSlotLock", slotId, << >>, Some(r.result))
    /\ engineCalls' = << >>
    /\ UNCHANGED << minSlot, maxSlot, root, scale, tempo, slotConfigs, gestures,
                    harmonicContext, styleDistribution, playerVars, budget, rng, engine >>

\* setHarmony(root, scale)
SetHarmony(r, sc) ==
    /\ budget > 0
    /\ IF root = r /\ scale = sc
         THEN UNCHANGED << root, scale, harmonicContext, gestures, budget >>
         ELSE /\ root' = r
              /\ scale' = sc
              /\ harmonicContext' = HarmonicContext(r, sc)
              /\ gestures' = regenerateAll(slotConfigs, gestures, lockedSlots,
                                           HarmonicContext(r, sc), TRUE)
              /\ budget' = budget - 1
    /\ lastCall' = Call("setHarmony", 0, << r, sc >>, None)
    /\ engineCalls' = << >>
    /\ UNCHANGED << minSlot, maxSlot, tempo, slotConfigs, lockedSlots, styleDistribution,
                    playerVars, rng, engine >>

\* faulty variant of SetTempo: the timers already armed are moved to the new tempo
SetTempoRescaling(bpm) ==
    /\ tempo' = bpm
    /\ timers' = [ i \in 1..Len(timers) |->
                     [ timers[i] EXCEPT !.fireAt = now + ((@ - now) * tempo) \div bpm ] ]
    /\ lastCall' = Call("setTempo", 0, << bpm >>, None)
    /\ engineCalls' = << >>
    /\ UNCHANGED << minSlot, maxSlot, root, scale, slotConfigs, gestures, lockedSlots,
                    harmonicContext, styleDistribution, activeGestures, heap, now,
                    sinceTrigger, palette, budget, rng, engine >>

\* setTempo(tempo)
SetTempo(bpm) ==
    /\ tempo' = bpm
    /\ lastCall' = Call("setTempo", 0, << bpm >>, None)
    /\ engineCalls' = << >>
    /\ UNCHANGED << minSlot, maxSlot, root, scale, slotConfigs, gestures, lockedSlots,
                    harmonicContext, styleDistribution, playerVars, budget, rng, engine >>

\* regenerateAll({ respectLocks })
RegenerateAll(respectLocks) ==
    /\ budget > 0
    /\ gestures' = regenerateAll(slotConfigs, gestures, lockedSlots, harmonicContext,
                                 respectLocks)
    /\ budget' = budget - 1
    /\ lastCall' = Call("regenerateAll", 0, << respectLocks >>, None)
    /\ engineCalls' = << >>
    /\ UNCHANGED << minSlot, maxSlot, root, scale, tempo, slotConfigs, lockedSlots,
                    harmonicContext, styleDistribution, playerVars, rng, engine >>

\* regenerateSlot(slotId)
RegenerateSlot(slotId) ==
    /\ budget > 0
    /\ LET r == regenerateSlot(slotConfigs, gestures, lockedSlots, harmonicContext, slotId)
       IN  /\ gestures' = r.gestures
           /\ lastCall' = Call("regenerateSlot", slotId, << >>, r.result)
    /\ budget' = budget - 1
    /\ engineCalls' = << >>
    /\ UNCHANGED << minSlot, maxSlot, root, scale, tempo, slotConfigs, lockedSlots,
                    harmonicContext, styleDistribution, playerVars, rng, engine >>

\* faulty variant of UpdateSlotConfig: the config is updated and the slot is not
\* regenerated
UpdateSlotConfigOnly(slotId, updates) ==
    /\ budget > 0
    /\ IF slotId \notin DOMAIN slotConfigs
         THEN UNCHANGED slotConfigs
         ELSE slotConfigs' = [ slotConfigs EXCEPT ![slotId] = ObjectAssign(@, updates) ]
    /\ budget' = budget - 1
    /\ lastCall' = Call("updateSlotConfig", slotId, << updates >>, None)
    /\ engineCalls' = << >>
    /\ UNCHANGED << minSlot, maxSlot, root, scale, tempo, gestures, lockedSlots,
                    harmonicContext, styleDistribution, playerVars, rng, engine >>

\* updateSlotConfig(slotId, updates)
UpdateSlotConfig(slotId, updates) ==
    /\ budget > 0
    /\ IF slotId \notin DOMAIN slotConfigs
         THEN UNCHANGED << slotConfigs, gestures >>
         ELSE LET cs == [ slotConfigs EXCEPT ![slotId] = ObjectAssign(@, updates) ]
              IN  /\ slotConfigs' = cs
                  /\ gestures' = regenerateSlot(cs, gestures, lockedSlots, harmonicContext,
                                                slotId).gestures
    /\ budget' = budget - 1
    /\ lastCall' = Call("updateSlotConfig", slotId, << updates >>, None)
    /\ engineCalls' = << >>
    /\ UNCHANGED << minSlot, maxSlot, root, scale, tempo, lockedSlots, harmonicContext,
                    styleDistribution, playerVars, rng, engine >>

\* randomizeDistribution()
RandomizeDistribution(dateNow) ==
    /\ budget > 0
    /\ LET r == randomizeDistribution(dateNow)
       IN  /\ styleDistribution' = r.styleDistribution
           /\ slotConfigs' = r.slotConfigs
           /\ gestures' = r.gestures
    /\ budget' = budget - 1
    /\ lastCall' = Call("randomizeDistribution", 0, << dateNow >>, None)
    /\ engineCalls' = << >>
    /\ UNCHANGED << minSlot, maxSlot, root, scale, tempo, lockedSlots, harmonicContext,
                    playerVars, rng, engine >>

\* evolveUnlockedSlots()
EvolveUnlockedSlots(dateNow) ==
    /\ budget > 0
    /\ LET r == evolveUnlockedSlots(dateNow)
       IN  /\ slotConfigs' = r.slotConfigs
           /\ gestures' = r.gestures
    /\ budget' = budget - 1
    /\ lastCall' = Call("evolveUnlockedSlots", 0, << dateNow >>, None)
    /\ engineCalls' = << >>
    /\ UNCHANGED << minSlot, maxSlot, root, scale, tempo, lockedSlots, harmonicContext,
                    styleDistribution, playerVars, rng, engine >>

NextPalette ==
    \/ \E k \in minSlot..maxSlot : ToggleSlotLock(k)
    \/ \E r \in Roots, sc \in Scales : SetHarmony(r, sc)
    \/ \E b \in BOOLEAN : RegenerateAll(b)
    \/ \E k \in SlotIds : RegenerateSlot(k)
    \/ \E k \in SlotIds, i \in 1..Len(Updates) : UpdateSlotConfig(k, Updates[i])
    \/ \E d \in DateNows : RandomizeDistribution(d)
    \/ \E d \in DateNows : EvolveUnlockedSlots(d)

SpecPalette == InitPalette /\ [][NextPalette]_vars

\* the fields of a layout's SlotConfigs, without the objects' identities
Layout(configs) == [ k \in DOMAIN configs |-> [ configs[k] EXCEPT !.obj = 0 ] ]

\* initializeSlots() called again on the palette: every slot gets a new SlotConfig;
\* the cached gestures are not touched
InitializeSlots ==
    /\ budget > 0
    /\ \E fresh \in { initializeSlots(minSlot, maxSlot, styleDistribution) } :
           /\ slotConfigs' = [ k \in DOMAIN fresh |->
                                 [ fresh[k] EXCEPT !.obj = NewConfigObj(slotConfigs, k) ] ]
           /\ lastCall' = Call("initializeSlots", 0,
                               << Layout(slotConfigs) = Layout(fresh) >>, None)
    /\ budget' = budget - 1
    /\ engineCalls' = << >>
    /\ UNCHANGED << minSlot, maxSlot, root, scale, tempo, gestures, lockedSlots,
                    harmonicContext, styleDistribution, playerVars, rng, engine >>

\* the palette as constructed by default, slots 36..96
InitLayout == InitWith(DefaultMaxSlot - DefaultMinSlot + 1, LayoutOps)

\* the slots edited between runs of initializeSlots
LayoutProbes == { DefaultMinSlot, DefaultMaxSlot }

NextLayout ==
    \/ InitializeSlots
    \/ \E k \in LayoutProbes : ToggleSlotLock(k)
    \/ \E k \in LayoutProbes, i \in 1..Len(Updates) : UpdateSlotConfig(k, Updates[i])

SpecLayout == InitLayout /\ [][NextLayout]_vars

\* the palette regenerating gestures while configs, harmony and tempo change; no
\* slot is locked, so the cache always holds the output for the current config
\* and harmonic context
NextGenerate ==
    \/ \E bpm \in Tempos : SetTempo(bpm)
    \/ \E r \in Roots, sc \in Scales : SetHarmony(r, sc)
    \/ \E b \in BOOLEAN : RegenerateAll(b)
    \/ \E k \in SlotIds : RegenerateSlot(k)
    \/ \E k \in SlotIds, i \in 1..Len(Updates) : UpdateSlotConfig(k, Updates[i])

SpecGenerate == InitPalette /\ [][NextGenerate]_vars

\* the seeds SeededRandom is constructed with: positive, zero, negative, and
\* around the modulus
Seeds ==
    { 1, MasterSeed, 1700000000, 0, -1, Modulus - 1, Modulus, -(Modulus - 1), -Modulus }

\* the (min, max) pairs int is called with
IntRanges == { << 0, 3 >>, << -2, 2 >>, << 5, 5 >> }

\* the two instances under test
Instances == { "a", "b" }

\* two instances are built from one seed, next to a default palette and player
InitRandom ==
    /\ InitHost(TriggerSlots, TriggerOps)
    /\ InitGestures
    /\ palette = TRUE
    /\ \E seed \in Seeds : rng = RngPair(seed)

\* next() on instance i
CallNext(i) ==
    /\ Len(rng[i].out) < RngCalls
    /\ LET s == RngStep(rng[i].state)
       IN  rng' = [ rng EXCEPT ![i] =
                      [ state |-> s,
                        out   |-> Append(@.out, RngCall("next", 0, 0, Numerator(s))) ] ]
    /\ lastCall' = Call("next", 0, << i >>, None)
    /\ engineCalls' = << >>
    /\ UNCHANGED << paletteVars, playerVars, budget, engine >>

\* int(min, max) on instance i
CallInt(i, lo, hi) ==
    /\ Len(rng[i].out) < RngCalls
    /\ LET s == RngStep(rng[i].state)
       IN  rng' = [ rng EXCEPT ![i] =
                      [ state |-> s,
                        out   |-> Append(@.out, RngCall("int", lo, hi, RngInt(s, lo, hi))) ] ]
    /\ lastCall' = Call("int", 0, << i, lo, hi >>, None)
    /\ engineCalls' = << >>
    /\ UNCHANGED << paletteVars, playerVars, budget, engine >>

NextRandom ==
    \/ \E i \in Instances : CallNext(i)
    \/ \E i \in Instances, r \in IntRanges : CallInt(i, r[1], r[2])

SpecRandom == InitRandom /\ [][NextRandom]_vars

NextEvolve ==
    \/ \E k \in minSlot..maxSlot : ToggleSlotLock(k)
    \/ \E d \in DateNows : EvolveUnlockedSlots(d)

SpecEvolve == InitEvolve /\ [][NextEvolve]_vars

----------------------------------------------------------------------------
(* Player operations *)

Player == [ map |-> activeGestures, heap |-> heap, timers |-> timers ]

\* the identities a slot's playback states take
StateIds(slotId) == { (slotId - minSlot) * MaxStates + g : g \in 1..MaxStates }

\* the identity of a new playback state: one that no live state has
NewStateId(h, slotId) ==
    CHOOSE i \in StateIds(slotId) :
        h[i] = None /\ \A j \in StateIds(slotId) : h[j] = None => i <= j

\* faulty variant of triggerSlot: the playback the slot has is not released first
triggerSlotWithoutRelease(pl, slotId, velocity, forceOneShot) ==
    LET found == slotId \in DOMAIN gestures
        gesture == gestures[slotId]
    IN  IF ~palette \/ ~found \/ Len(gesture.events) = 0
          THEN [ map |-> pl.map, heap |-> pl.heap, timers |-> pl.timers, calls |-> << >>,
                 result |-> None ]
          ELSE LET live  == Collect(pl.map, pl.heap, pl.timers)
                   sid   == IF \E i \in StateIds(slotId) : live[i] = None
                              THEN NewStateId(live, slotId)
                              ELSE MapGet(pl.map, slotId)
                   state == GesturePlaybackState(gesture, slotId, velocity, now, forceOneShot)
                   sch   == scheduleGesture(sid, state, pl.timers)
               IN  [ map    |-> MapSet(pl.map, slotId, sid),
                     heap   |-> [ live EXCEPT ![sid] = Some(sch.state) ],
                     timers |-> sch.timers,
                     calls  |-> << >>,
                     result |-> Some([ gesture |-> gesture, isLooping |-> state.isLooping ]) ]

\* the pending timers whose closure holds playback state sid
TimersOf(ts, sid) == { i \in 1..Len(ts) : ts[i].state = sid }

\* the number of timers scheduleGesture arms for a gesture
ArmedBy(gesture, isLooping) ==
    Len(gesture.events)
      + Cardinality({ i \in 1..Len(gesture.events) : gesture.events[i].duration > 0 })
      + (IF isLooping THEN 1 ELSE 0)

\* what a triggerSlot call finds in the slot: no playback ("none"), a playback none
\* of whose timers has run ("fresh"), or one that has started ("played")
Superseded(slotId) ==
    IF ~MapHas(activeGestures, slotId) THEN "none"
    ELSE LET sid == MapGet(activeGestures, slotId)
             st  == Get(heap[sid])
         IN  IF st.loopCount = 0
                  /\ Cardinality(TimersOf(timers, sid)) = ArmedBy(st.gesture, st.isLooping)
               THEN "fresh" ELSE "played"

\* the callbacks and loop iterations of the timers a call has cleared
Cancelled(before, after) ==
    { << before[i].kind, before[i].iter >> :
        i \in { j \in 1..Len(before) : \A k \in 1..Len(after) : after[k].id # before[j].id } }

\* faulty variant of triggerSlot: the slot is released before the palette and the
\* gesture are looked at, so a failing call stops the playback the slot had
triggerSlotReleasingFirst(pl, slotId, velocity, forceOneShot) ==
    LET found == slotId \in DOMAIN gestures
        gesture == gestures[slotId]
        rel   == releaseSlot(pl, slotId)
        live  == Collect(rel.map, rel.heap, rel.timers)
    IN  IF ~palette \/ ~found \/ Len(gesture.events) = 0
          THEN [ map |-> rel.map, heap |-> live, timers |-> rel.timers, calls |-> rel.calls,
                 result |-> None ]
          ELSE LET sid   == NewStateId(live, slotId)
                   state == GesturePlaybackState(gesture, slotId, velocity, now, forceOneShot)
                   map1  == MapSet(rel.map, slotId, sid)
                   sch   == scheduleGesture(sid, state, rel.timers)
               IN  [ map    |-> map1,
                     heap   |-> [ live EXCEPT ![sid] = Some(sch.state) ],
                     timers |-> sch.timers,
                     calls  |-> rel.calls,
                     result |-> Some([ gesture |-> gesture, isLooping |-> state.isLooping ]) ]

\* triggerSlot(slotId, velocity, { forceOneShot }) on the player: the player
\* afterwards, the engine calls issued and the value returned
triggerSlot(pl, slotId, velocity, forceOneShot) ==
    LET found == slotId \in DOMAIN gestures
        gesture == gestures[slotId]
    IN  IF ~palette \/ ~found \/ Len(gesture.events) = 0
          THEN [ map |-> pl.map, heap |-> pl.heap, timers |-> pl.timers, calls |-> << >>,
                 result |-> None ]
          ELSE LET rel   == releaseSlot(pl, slotId)
                   live  == Collect(rel.map, rel.heap, rel.timers)
                   sid   == NewStateId(live, slotId)
                   state == GesturePlaybackState(gesture, slotId, velocity, now, forceOneShot)
                   map1  == MapSet(rel.map, slotId, sid)
                   sch   == scheduleGesture(sid, state, rel.timers)
               IN  [ map    |-> map1,
                     heap   |-> [ live EXCEPT ![sid] = Some(sch.state) ],
                     timers |-> sch.timers,
                     calls  |-> rel.calls,
                     result |-> Some([ gesture |-> gesture, isLooping |-> state.isLooping ]) ]

\* triggerSlot(slotId, velocity, { forceOneShot }) runs
CallTriggerSlot(slotId, velocity, forceOneShot) ==
    /\ LET rel == releaseSlot(Player, slotId)
       IN  \E i \in StateIds(slotId) : Collect(rel.map, rel.heap, rel.timers)[i] = None
    /\ LET r == triggerSlot(Player, slotId, velocity, forceOneShot)
       IN  /\ activeGestures' = r.map
           /\ timers' = r.timers
           /\ heap' = Collect(r.map, r.heap, r.timers)
           /\ engineCalls' = r.calls
           /\ lastCall' = Call("triggerSlot", slotId, << Superseded(slotId), forceOneShot >>,
                               r.result)
           /\ sinceTrigger' =
                IF IsSome(r.result)
                  THEN [ sinceTrigger EXCEPT ![slotId] =
                           Some([ state |-> MapGet(r.map, slotId), gesture |-> gestures[slotId],
                                  velocity |-> velocity, at |-> now, tempo |-> tempo,
                                  isLooping |-> Get(r.result).isLooping,
                                  noteOns |-> [ e \in 1..Len(gestures[slotId].events) |-> 0 ] ]) ]
                  ELSE sinceTrigger
    /\ UNCHANGED << paletteVars, palette, rng, now >>

\* the host calls triggerSlot
TriggerSlot(slotId, velocity, forceOneShot) ==
    CallTriggerSlot(slotId, velocity, forceOneShot) /\ UNCHANGED << budget, engine >>

\* releaseSlot(slotId), as far as the player goes
CallReleaseSlot(slotId) ==
    /\ LET r == releaseSlot(Player, slotId)
       IN  /\ activeGestures' = r.map
           /\ timers' = r.timers
           /\ heap' = Collect(r.map, r.heap, r.timers)
           /\ engineCalls' = r.calls
           /\ lastCall' = Call("releaseSlot", slotId, << Cancelled(timers, r.timers) >>, None)
    /\ sinceTrigger' = [ sinceTrigger EXCEPT ![slotId] = None ]
    /\ UNCHANGED << paletteVars, palette, rng, now, budget >>

\* the host calls releaseSlot
ReleaseSlot(slotId) == CallReleaseSlot(slotId) /\ UNCHANGED engine

\* releaseAll(), as far as the player goes
CallReleaseAll ==
    /\ LET r == releaseAll(Player)
       IN  /\ activeGestures' = r.map
           /\ timers' = r.timers
           /\ heap' = Collect(r.map, r.heap, r.timers)
           /\ engineCalls' = r.calls
           /\ lastCall' = Call("releaseAll", 0,
                               << Cancelled(timers, r.timers), MapKeys(activeGestures) >>, None)
    /\ sinceTrigger' = [ k \in DOMAIN sinceTrigger |-> None ]
    /\ UNCHANGED << paletteVars, palette, rng, now, budget >>

\* the host calls releaseAll
ReleaseAll == CallReleaseAll /\ UNCHANGED engine

\* faulty variant of playEvent: the pitch recorded as sounding is the one an octave up
playEventOctave(st, event, globalVelocity) ==
    IF ~MapHas(activeGestures, st.slotId) THEN [ state |-> st, calls |-> << >> ]
    ELSE [ state |-> [ st EXCEPT !.activeNotes = SetAdd(@, event.note + 12) ],
           calls |-> << noteOn(event.note, finalVelocity(event, globalVelocity)) >> ]

\* faulty variant of playEvent: the slot is not checked
playEventUnguarded(st, event, globalVelocity) ==
    [ state |-> [ st EXCEPT !.activeNotes = SetAdd(@, event.note) ],
      calls |-> << noteOn(event.note, finalVelocity(event, globalVelocity)) >> ]

\* playEvent(state, event, globalVelocity): the state afterwards and the engine calls
playEvent(st, event, globalVelocity) ==
    IF ~MapHas(activeGestures, st.slotId) THEN [ state |-> st, calls |-> << >> ]
    ELSE [ state |-> [ st EXCEPT !.activeNotes = SetAdd(@, event.note) ],
           calls |-> << noteOn(event.note, finalVelocity(event, globalVelocity)) >> ]

\* faulty variant of stopEvent: the noteOff is issued whether or not the pitch
\* is marked sounding
stopEventAlways(st, event) ==
    IF ~MapHas(activeGestures, st.slotId) THEN [ state |-> st, calls |-> << >> ]
    ELSE [ state |-> [ st EXCEPT !.activeNotes = SetDelete(@, event.note) ],
           calls |-> << noteOff(event.note) >> ]

\* stopEvent(state, event): the state afterwards and the engine calls
stopEvent(st, event) ==
    IF ~MapHas(activeGestures, st.slotId) THEN [ state |-> st, calls |-> << >> ]
    ELSE IF event.note \in SeqToSet(st.activeNotes)
      THEN [ state |-> [ st EXCEPT !.activeNotes = SetDelete(@, event.note) ],
             calls |-> << noteOff(event.note) >> ]
      ELSE [ state |-> st, calls |-> << >> ]

\* the timers without entry i
WithoutIndex(ts, i) == SubSeq(ts, 1, i - 1) \o SubSeq(ts, i + 1, Len(ts))

\* faulty variant of FireTimeout: a playback whose last timer has fired leaves
\* the active map by itself
FireTimeoutFinishing(i) ==
    LET tm    == timers[i]
        st    == Get(heap[tm.state])
        event == st.gesture.events[tm.ev]
        r     == IF tm.kind = "on" THEN playEvent(st, event, st.velocity)
                                   ELSE stopEvent(st, event)
        rest  == WithoutIndex(timers, i)
        h     == [ heap EXCEPT ![tm.state] =
                     Some([ r.state EXCEPT !.timeoutIds = @ \ {tm.id} ]) ]
        m     == IF \E j \in 1..Len(rest) : rest[j].state = tm.state
                   THEN activeGestures
                   ELSE SelectSeq(activeGestures, LAMBDA e : e.state # tm.state)
    IN  /\ timers[i].kind # "loop"
        /\ timers' = rest
        /\ activeGestures' = m
        /\ heap' = Collect(m, h, rest)
        /\ engineCalls' = r.calls
        /\ lastCall' = Call(IF tm.kind = "on" THEN "playEvent" ELSE "stopEvent",
                            st.slotId, << tm.ev >>, None)
        /\ sinceTrigger' =
              IF tm.kind = "on" /\ r.calls # << >> /\ IsSome(sinceTrigger[st.slotId])
                   /\ Get(sinceTrigger[st.slotId]).state = tm.state
                THEN [ sinceTrigger EXCEPT ![st.slotId] =
                         Some([ Get(@) EXCEPT !.noteOns[tm.ev] = @ + 1 ]) ]
                ELSE sinceTrigger
        /\ UNCHANGED << paletteVars, palette, rng, engine, now, budget >>

\* a setTimeout callback runs: playEvent or stopEvent of the state and event its
\* closure holds.  (A handle that has fired is dropped from timeoutIds: clearing
\* it later would do nothing.)
RunTimeout(i) ==
    LET tm    == timers[i]
        st    == Get(heap[tm.state])
        event == st.gesture.events[tm.ev]
        r     == IF tm.kind = "on" THEN playEvent(st, event, st.velocity)
                                   ELSE stopEvent(st, event)
        rest  == WithoutIndex(timers, i)
        h     == [ heap EXCEPT ![tm.state] =
                     Some([ r.state EXCEPT !.timeoutIds = @ \ {tm.id} ]) ]
        \* the noteOn counts towards the trigger that created the state
        counts == tm.kind = "on" /\ r.calls # << >> /\ IsSome(sinceTrigger[st.slotId])
                    /\ Get(sinceTrigger[st.slotId]).state = tm.state
    IN  /\ timers[i].kind # "loop"
        /\ timers' = rest
        /\ heap' = Collect(activeGestures, h, rest)
        /\ engineCalls' = r.calls
        /\ lastCall' = Call(IF tm.kind = "on" THEN "playEvent" ELSE "stopEvent",
                            st.slotId, << tm.ev >>, None)
        /\ sinceTrigger' =
              IF counts
                THEN [ sinceTrigger EXCEPT ![st.slotId] =
                         Some([ Get(@) EXCEPT !.noteOns[tm.ev] = @ + 1 ]) ]
                ELSE sinceTrigger
        /\ UNCHANGED << paletteVars, palette, rng, activeGestures, now, budget >>

\* the event loop runs a due setTimeout callback
FireTimeout(i) == RunTimeout(i) /\ UNCHANGED engine

\* faulty variant of FireInterval: the restart reads the ms per beat again
FireIntervalAtTempo(i) ==
    LET tm    == timers[i]
        st    == Get(heap[tm.state])
        rest  == WithoutIndex(timers, i)
        armed == armEvents(st.gesture.events, 1, tm.state, getMsPerBeat(tempo),
                           st.loopCount + 1, rest, st.timeoutIds)
        again == InsertTimer(armed.timers, [ tm EXCEPT !.fireAt = @ + tm.period ])
    IN  /\ timers[i].kind = "loop"
        /\ timers' = again
        /\ heap' = [ heap EXCEPT ![tm.state] =
                       Some([ st EXCEPT !.loopCount = @ + 1,
                                        !.timeoutIds = armed.timeoutIds ]) ]
        /\ engineCalls' = << >>
        /\ lastCall' = Call("loopRestart", st.slotId, << >>, None)
        /\ UNCHANGED << paletteVars, palette, rng, engine, activeGestures, now, sinceTrigger, budget >>

\* faulty variant of FireInterval: the restart fetches the Gesture the palette
\* caches for the slot now and arms its events
FireIntervalResampling(i) ==
    LET tm    == timers[i]
        st    == Get(heap[tm.state])
        rest  == WithoutIndex(timers, i)
        fresh == IF st.slotId \in DOMAIN gestures THEN gestures[st.slotId] ELSE st.gesture
        armed == armEvents(fresh.events, 1, tm.state, tm.mspb, st.loopCount + 1,
                           rest, st.timeoutIds)
        again == InsertTimer(armed.timers, [ tm EXCEPT !.fireAt = @ + tm.period ])
    IN  /\ timers[i].kind = "loop"
        /\ timers' = again
        /\ heap' = [ heap EXCEPT ![tm.state] =
                       Some([ st EXCEPT !.loopCount = @ + 1,
                                        !.gesture = fresh,
                                        !.timeoutIds = armed.timeoutIds ]) ]
        /\ engineCalls' = << >>
        /\ lastCall' = Call("loopRestart", st.slotId, << >>, None)
        /\ UNCHANGED << paletteVars, palette, rng, engine, activeGestures, now, sinceTrigger, budget >>

\* the setInterval callback runs: state.loopCount++, every event armed again with
\* the ms per beat the closure captured; the interval stays registered
FireInterval(i) ==
    LET tm    == timers[i]
        st    == Get(heap[tm.state])
        rest  == WithoutIndex(timers, i)
        armed == armEvents(st.gesture.events, 1, tm.state, tm.mspb, st.loopCount + 1,
                           rest, st.timeoutIds)
        \* the interval is due again one period after it was due
        again == InsertTimer(armed.timers, [ tm EXCEPT !.fireAt = @ + tm.period ])
    IN  /\ timers[i].kind = "loop"
        /\ timers' = again
        /\ heap' = [ heap EXCEPT ![tm.state] =
                       Some([ st EXCEPT !.loopCount = @ + 1,
                                        !.timeoutIds = armed.timeoutIds ]) ]
        /\ engineCalls' = << >>
        /\ lastCall' = Call("loopRestart", st.slotId, << >>, None)
        /\ UNCHANGED << paletteVars, palette, rng, engine, activeGestures, now, sinceTrigger, budget >>

\* the event loop runs the next due timer
FireTimer ==
    \E i \in DueIndex(timers) : FireTimeout(i) \/ FireInterval(i)

\* time passes while no timer is due
Tick ==
    /\ DueIndex(timers) = {}
    /\ now + TickMs <= MaxTicks * TickMs
    /\ now' = now + TickMs
    /\ engineCalls' = << >>
    /\ lastCall' = Call("tick", 0, << >>, None)
    /\ UNCHANGED << paletteVars, palette, rng, engine, activeGestures, heap, timers, sinceTrigger, budget >>

Next ==
    \/ \E k \in SlotIds, v \in Velocities, f \in BOOLEAN : TriggerSlot(k, v, f)
    \/ \E k \in SlotIds : ReleaseSlot(k)
    \/ ReleaseAll
    \/ FireTimer
    \/ Tick
    \/ \E k \in minSlot..maxSlot : RegenerateSlot(k)

Spec == Init /\ [][Next]_vars

\* new EventGesturePlayer(engine): the palette is attached later, by setPalette
InitTrigger ==
    /\ InitHost(TriggerSlots, TriggerOps)
    /\ InitGestures
    /\ palette = FALSE
    /\ rng = RngPair(MasterSeed)

\* setPalette(palette)
SetPalette ==
    /\ palette' = TRUE
    /\ lastCall' = Call("setPalette", 0, << >>, None)
    /\ engineCalls' = << >>
    /\ UNCHANGED << paletteVars, activeGestures, heap, timers, now, sinceTrigger, budget, rng, engine >>

\* the player driven while the host edits slot configs and changes the tempo
NextTrigger ==
    \/ SetPalette
    \/ \E k \in SlotIds, v \in Velocities, f \in BOOLEAN : TriggerSlot(k, v, f)
    \/ \E k \in minSlot..maxSlot : ReleaseSlot(k)
    \/ FireTimer
    \/ Tick
    \/ \E k \in minSlot..maxSlot, i \in 1..Len(Updates) : UpdateSlotConfig(k, Updates[i])
    \/ \E bpm \in Tempos : SetTempo(bpm)

SpecTrigger == InitTrigger /\ [][NextTrigger]_vars

\* the host's player and palette, the host editing slot configs up to LoopOps times
InitLoop == InitWith(TriggerSlots, LoopOps)

\* the player driven while the host edits slot configs: a config is edited, the
\* slot is triggered and loops, the config is edited again
NextLoop ==
    \/ \E k \in SlotIds, v \in Velocities, f \in BOOLEAN : TriggerSlot(k, v, f)
    \/ \E k \in minSlot..maxSlot : ReleaseSlot(k)
    \/ FireTimer
    \/ Tick
    \/ \E k \in minSlot..maxSlot, i \in 1..Len(Updates) : UpdateSlotConfig(k, Updates[i])

SpecLoop == InitLoop /\ [][NextLoop]_vars

\* the pitches the engine is played with
Pitches == { 60, 62, 64 }

\* the polyphony settings the host selects
Polyphonies == { PoolSize, DefaultVoices }

\* the note is mapped to a voice that is playing it
Sounding(e, note) ==
    /\ IsSome(findVoiceByNote(e, note))
    /\ e.voices[Get(findVoiceByNote(e, note))].active
    /\ e.voices[Get(findVoiceByNote(e, note))].note = Some(note)

\* engine.noteOn(note, velocity)
EngineNoteOn(note) ==
    /\ engine' = engineNoteOn(engine, note, now)
    /\ lastCall' = Call("engine.noteOn", note, << Sounding(engine, note) >>, None)
    /\ engineCalls' = << >>
    /\ UNCHANGED << paletteVars, playerVars, budget, rng >>

\* engine.noteOff(note)
EngineNoteOff(note) ==
    /\ engine' = engineNoteOff(engine, note)
    /\ lastCall' = Call("engine.noteOff", note, << Sounding(engine, note) >>, None)
    /\ engineCalls' = << >>
    /\ UNCHANGED << paletteVars, playerVars, budget, rng >>

\* engine.allNotesOff()
EngineAllNotesOff ==
    /\ engine' = engineAllNotesOff(engine)
    /\ lastCall' = Call("engine.allNotesOff", 0, << >>, None)
    /\ engineCalls' = << >>
    /\ UNCHANGED << paletteVars, playerVars, budget, rng >>

\* engine.setPolyphony(count)
SetPolyphony(count) ==
    /\ engine' = setPolyphony(engine, count)
    /\ lastCall' = Call("engine.setPolyphony", 0, << count >>, None)
    /\ engineCalls' = << >>
    /\ UNCHANGED << paletteVars, playerVars, budget, rng >>

\* the engine driven directly, while the audio clock advances
NextEngine ==
    \/ \E n \in Pitches : EngineNoteOn(n)
    \/ \E n \in Pitches : EngineNoteOff(n)
    \/ EngineAllNotesOff
    \/ \E c \in Polyphonies : SetPolyphony(c)
    \/ Tick

\* the host's engine next to a default palette and player
InitEngine == InitWith(TriggerSlots, TriggerOps)

SpecEngine == InitEngine /\ [][NextEngine]_vars

\* event velocities, trigger velocities (thousandths) and tags playEvent is run on
EventVelocities == { 0, 500, 1500 }

TriggerVelocities == { 100, 1000, 2000 }

EventTags == { None, Some("ghost"), Some("grace"), Some("accent"), Some("pedal"), Some("cluster") }

\* the palette caches a Gesture of one event with any velocity and tag, looping or not
InitVelocity ==
    /\ InitHost(TriggerSlots, TriggerOps)
    /\ \E v \in EventVelocities, tg \in EventTags, loop \in { None, Some(2) } :
          gestures = [ k \in DOMAIN slotConfigs |->
                         Gesture(0, slotConfigs[k].styleId, k, slotConfigs[k].role,
                                 << GestureEvent(1, 60, v, 1, tg) >>, loop) ]
    /\ palette = TRUE
    /\ rng = RngPair(MasterSeed)

\* the player triggered at any velocity
NextVelocity ==
    \/ \E k \in SlotIds, v \in TriggerVelocities, f \in BOOLEAN : TriggerSlot(k, v, f)
    \/ \E k \in minSlot..maxSlot : ReleaseSlot(k)
    \/ FireTimer
    \/ Tick

SpecVelocity == InitVelocity /\ [][NextVelocity]_vars

\* Gestures whose events share a pitch: overlapping, back to back, nested, and
\* starting together (time, pitch, velocity, duration in beats)
SharedPitchEvents ==
    { << GestureEvent(0, 60, 1000, 2, None), GestureEvent(1, 60, 1000, 2, None) >>,
      << GestureEvent(0, 60, 1000, 1, None), GestureEvent(1, 60, 1000, 1, None) >>,
      << GestureEvent(0, 60, 1000, 3, None), GestureEvent(1, 60, 1000, 1, None) >>,
      << GestureEvent(0, 60, 1000, 2, None), GestureEvent(0, 60, 1000, 1, None),
         GestureEvent(1, 62, 1000, 1, None) >> }

\* the palette caches a Gesture whose events share a pitch, looping or not
InitOverlap ==
    /\ InitHost(TriggerSlots, TriggerOps)
    /\ \E events \in SharedPitchEvents, loop \in { None, Some(2) } :
          gestures = [ k \in DOMAIN slotConfigs |->
                         Gesture(0, slotConfigs[k].styleId, k, slotConfigs[k].role, events, loop) ]
    /\ palette = TRUE
    /\ rng = RngPair(MasterSeed)

\* the player driven on Gestures whose events share a pitch
NextOverlap ==
    \/ \E k \in SlotIds, v \in Velocities, f \in BOOLEAN : TriggerSlot(k, v, f)
    \/ \E k \in minSlot..maxSlot : ReleaseSlot(k)
    \/ ReleaseAll
    \/ FireTimer
    \/ Tick

SpecOverlap == InitOverlap /\ [][NextOverlap]_vars

\* SlotConfigs of the fracturedLead style: integer seeds, normalized parameters
\* in thousandths, motifVariation 0
TimingConfigs ==
    { [ styleId |-> "fracturedLead", seed |-> seed, complexity |-> complexity,
        density |-> density, tension |-> tension, rhythmLoose |-> rhythmLoose,
        motifVariation |-> 0 ] :
        seed \in { 1, 12, 42, 12345, 500000, 1700000000 },
        complexity \in { 0, 500, 1000 },
        density \in { 0, 500 },
        tension \in { 500, 800 },
        rhythmLoose \in { 0, 300, 1000 } }

\* the times applyMicrotiming is given (among them that of a grace note placed
\* before a main note at 0), its amounts, and values of rng.next()
MicrotimingInputs ==
    { << time, amount, u >> : time \in { -500, 0, 20, 3330 }, amount \in { 0, 300, 1000 },
                              u \in { 0, 250, 500, 999 } }

InitTiming == InitWith(TriggerSlots, TriggerOps)

\* the FracturedLeadGenerator generates for a config
GenerateFracturedLead(config) ==
    /\ lastCall' = Call("generate", 0, << config >>, Some(fracturedLead(config)))
    /\ engineCalls' = << >>
    /\ UNCHANGED << paletteVars, playerVars, budget, rng, engine >>

\* applyMicrotiming is called
ApplyMicrotiming(time, amount, u) ==
    /\ lastCall' = Call("applyMicrotiming", 0, << time, amount, u >>,
                        Some(applyMicrotiming(time, amount, u)))
    /\ engineCalls' = << >>
    /\ UNCHANGED << paletteVars, playerVars, budget, rng, engine >>

NextTiming ==
    \/ \E config \in TimingConfigs : GenerateFracturedLead(config)
    \/ \E in \in MicrotimingInputs : ApplyMicrotiming(in[1], in[2], in[3])

SpecTiming == InitTiming /\ [][NextTiming]_vars

\* the player, the host calling triggerSlot at most LiveOps times
InitLive == InitWith(LiveSlots, LiveOps)

\* the host calls triggerSlot, early enough for every timer it arms to be due
\* before the clock stops
TriggerSlotInTime(slotId, velocity, forceOneShot) ==
    /\ budget > 0
    /\ CallTriggerSlot(slotId, velocity, forceOneShot)
    /\ budget' = budget - 1
    /\ UNCHANGED engine
    /\ \A i \in 1..Len(timers') : timers'[i].fireAt <= MaxTicks * TickMs

NextLive ==
    \/ \E k \in SlotIds, v \in Velocities, f \in BOOLEAN : TriggerSlotInTime(k, v, f)
    \/ \E k \in SlotIds : ReleaseSlot(k)
    \/ FireTimer
    \/ Tick

\* the event loop runs every timer that is due, and time passes
SpecLive == InitLive /\ [][NextLive]_vars /\ WF_vars(FireTimer) /\ WF_vars(Tick)

----------------------------------------------------------------------------
(* Properties of the palette *)

\* the slots that are locked and have a cached gesture
LockedWithGesture == { k \in DOMAIN gestures : IsLockedIn(lockedSlots, k) }

\* the slots of the palette that are not locked
UnlockedSlots == { k \in DOMAIN slotConfigs : ~IsLockedIn(lockedSlots, k) }

\* the slots of the palette that are locked
LockedSlotsWithConfig == { k \in DOMAIN slotConfigs : IsLockedIn(lockedSlots, k) }

\* the step is a bulk operation that respects the locks
BulkStepRespectingLocks ==
    \/ lastCall'.op = "regenerateAll" /\ lastCall'.args = << TRUE >>
    \/ lastCall'.op = "randomizeDistribution"
    \/ lastCall'.op = "evolveUnlockedSlots"

\* the step is any of the three bulk operations
BulkStep ==
    lastCall'.op \in { "regenerateAll", "randomizeDistribution", "evolveUnlockedSlots" }

\* the cache still holds, for every locked slot, the very object it held
LockedGesturesKept ==
    \A k \in LockedWithGesture : k \in DOMAIN gestures' /\ gestures'[k] = gestures[k]

\* C5 (as amended): a locked slot's cached Gesture is the very same object after
\* regenerateAll({ respectLocks: true }), randomizeDistribution() and
\* evolveUnlockedSlots(); none of them unlocks a slot, so it is the same object
\* after any sequence of them.
C5_LockStability ==
    [][ BulkStepRespectingLocks => (LockedGesturesKept /\ lockedSlots' = lockedSlots) ]_vars

\* C5 as stated, for every regenerateAll call: it fails for regenerateAll() and
\* regenerateAll({ respectLocks: false }), which clear the cache first.
C5_LockStabilityAnyRegenerateAll ==
    [][ BulkStep => LockedGesturesKept ]_vars

\* a bulk operation has run with a slot locked and another one unlocked: the
\* unlocked one holds a gesture generated by the call
C5_Witness ==
    /\ lastCall.op = "regenerateAll"
    /\ lastCall.args = << TRUE >>
    /\ \E k \in LockedWithGesture, j \in UnlockedSlots :
          gestures[k].obj = 0 /\ gestures[j].obj = 1

\* the step is a setHarmony call that changes the root or the scale
HarmonyChanges ==
    /\ lastCall'.op = "setHarmony"
    /\ lastCall'.args # << root, scale >>

\* C6: setHarmony(root, scale) with a different root or scale replaces the
\* HarmonicContext and the cached Gesture of every unlocked slot by one generated
\* in the new context; every locked slot keeps the identical cached Gesture.
C6_SetHarmony ==
    [][ HarmonyChanges =>
          /\ harmonicContext'.root = lastCall'.args[1]
          /\ harmonicContext'.scale = lastCall'.args[2]
          /\ harmonicContext' # harmonicContext
          /\ \A k \in UnlockedSlots :
                /\ k \in DOMAIN gestures'
                /\ k \in DOMAIN gestures => gestures'[k].obj # gestures[k].obj
                /\ gestures'[k] = Generate(gestures'[k].obj, slotConfigs[k],
                                           [ root |-> lastCall'.args[1],
                                             scale |-> lastCall'.args[2] ])
          /\ LockedGesturesKept ]_vars

\* the gesture of slot k is the one its config yields in the current context
InKey(k) == gestures[k] = Generate(gestures[k].obj, slotConfigs[k], harmonicContext)

\* setHarmony has changed the harmony with a slot locked and a slot unlocked: the
\* locked slot's gesture is still that of the old key, the unlocked one's is new
C6_Witness ==
    /\ lastCall.op = "setHarmony"
    /\ lastCall.args = << root, scale >>
    /\ \E k \in LockedSlotsWithConfig, j \in UnlockedSlots :
          ~InKey(k) /\ InKey(j) /\ gestures[j].obj = 1

\* C7: regenerateSlot(slotId) on a locked slot with a cached Gesture returns that
\* Gesture and leaves the cache unchanged; on an unlocked slot with a config it
\* stores and returns a newly generated Gesture; on a slot without a config it
\* returns null and changes nothing.
C7_RegenerateSlot ==
    [][ lastCall'.op = "regenerateSlot" =>
          LET k == lastCall'.slot
          IN  /\ (k \in LockedSlotsWithConfig /\ k \in DOMAIN gestures) =>
                    /\ lastCall'.result = Some(gestures[k])
                    /\ gestures' = gestures
              /\ k \in UnlockedSlots =>
                    /\ k \in DOMAIN gestures'
                    /\ lastCall'.result = Some(gestures'[k])
                    /\ k \in DOMAIN gestures => gestures'[k].obj # gestures[k].obj
                    /\ gestures'[k] = Generate(gestures'[k].obj, slotConfigs[k], harmonicContext)
                    /\ \A j \in DOMAIN gestures \ {k} : gestures'[j] = gestures[j]
              /\ k \notin DOMAIN slotConfigs =>
                    /\ lastCall'.result = None
                    /\ gestures' = gestures
              /\ slotConfigs' = slotConfigs
              /\ lockedSlots' = lockedSlots ]_vars

\* regenerateSlot has been called on a locked slot whose gesture predates a
\* change of harmony, and has returned that gesture
C7_Witness ==
    /\ lastCall.op = "regenerateSlot"
    /\ lastCall.slot \in LockedSlotsWithConfig
    /\ lastCall.result = Some(gestures[lastCall.slot])
    /\ ~InKey(lastCall.slot)

\* the step creates configs: randomizeDistribution(), or evolveUnlockedSlots()
\* with a locked slot of the palette to evolve from
ConfigsRedrawn ==
    \/ lastCall'.op = "randomizeDistribution"
    \/ lastCall'.op = "evolveUnlockedSlots" /\ LockedSlotsWithConfig # {}

\* locked slots keep their SlotConfig, every unlocked slot has a new SlotConfig object
LockedConfigsKeptOthersNew ==
    /\ DOMAIN slotConfigs' = DOMAIN slotConfigs
    /\ \A k \in LockedSlotsWithConfig : slotConfigs'[k] = slotConfigs[k]
    /\ \A k \in UnlockedSlots :
          /\ slotConfigs'[k].obj # slotConfigs[k].obj
          /\ slotConfigs'[k].slotId = k

\* C8 (as amended): randomizeDistribution(), and evolveUnlockedSlots() when a
\* locked slot of the palette exists, leave the SlotConfig of every locked slot
\* untouched and give every unlocked slot in range a newly created SlotConfig.
C8_ConfigsOfLockedSlots ==
    [][ ConfigsRedrawn => LockedConfigsKeptOthersNew ]_vars

\* C8 as stated, for every evolveUnlockedSlots() call: it fails when no slot is
\* locked, where the unlocked slots keep the SlotConfig objects they had.
C8_ConfigsAnyEvolve ==
    [][ lastCall'.op \in { "randomizeDistribution", "evolveUnlockedSlots" }
          => LockedConfigsKeptOthersNew ]_vars

\* evolveUnlockedSlots() has run with a locked and an unlocked slot: the locked
\* one holds its first config, the unlocked one a config created by the call
C8_Witness ==
    /\ lastCall.op = "evolveUnlockedSlots"
    /\ \E k \in LockedSlotsWithConfig, j \in UnlockedSlots :
          slotConfigs[k].obj = 0 /\ slotConfigs[j].obj = 1

\* locked slot r is one of the three locked slots nearest to k: fewer than three
\* locked slots are strictly nearer
AmongThreeNearest(r, k) ==
    Cardinality({ m \in LockedSlotsWithConfig : Abs(m - k) < Abs(r - k) }) < 3

\* C9: after evolveUnlockedSlots() with at least one locked slot, every unlocked
\* slot's styleId is that of one of the (up to 3) locked slots nearest to it by
\* slot-id distance, and its slotId, role and registerShift are those it had.
C9_EvolvedConfig ==
    [][ (lastCall'.op = "evolveUnlockedSlots" /\ LockedSlotsWithConfig # {}) =>
          \A k \in UnlockedSlots :
              /\ \E r \in LockedSlotsWithConfig :
                    /\ AmongThreeNearest(r, k)
                    /\ slotConfigs'[k].styleId = slotConfigs[r].styleId
              /\ slotConfigs'[k].slotId = slotConfigs[k].slotId
              /\ slotConfigs'[k].role = slotConfigs[k].role
              /\ slotConfigs'[k].registerShift = slotConfigs[k].registerShift ]_vars

\* evolveUnlockedSlots() has run with more than three locked slots, one of them
\* with a style that no nearer locked slot has, and an unlocked slot has taken
\* the style of a locked slot
C9_Witness ==
    /\ lastCall.op = "evolveUnlockedSlots"
    /\ Cardinality(LockedSlotsWithConfig) > 3
    /\ \E k \in UnlockedSlots :
          /\ slotConfigs[k].obj = 1
          /\ \E r \in LockedSlotsWithConfig :
                /\ ~AmongThreeNearest(r, k)
                /\ \A m \in LockedSlotsWithConfig :
                      AmongThreeNearest(m, k) => slotConfigs[m].styleId # slotConfigs[r].styleId

\* C10: when no slot is locked, evolveUnlockedSlots() leaves every SlotConfig
\* unchanged and only regenerates the cached Gesture of each slot from its
\* existing config.
C10_EvolveWithoutLocks ==
    [][ (lastCall'.op = "evolveUnlockedSlots" /\ lockedSlots = << >>) =>
          /\ slotConfigs' = slotConfigs
          /\ styleDistribution' = styleDistribution
          /\ DOMAIN gestures' = DOMAIN slotConfigs
          /\ \A k \in DOMAIN slotConfigs :
                /\ k \in DOMAIN gestures => gestures'[k].obj # gestures[k].obj
                /\ gestures'[k] = Generate(gestures'[k].obj, slotConfigs[k], harmonicContext) ]_vars

\* evolveUnlockedSlots() has run with no slot locked, after a config was updated:
\* every slot holds a regenerated gesture and the config it had
C10_Witness ==
    /\ lastCall.op = "evolveUnlockedSlots"
    /\ lockedSlots = << >>
    /\ \A k \in DOMAIN slotConfigs : slotConfigs[k].obj = 0
    /\ \E k \in DOMAIN slotConfigs : slotConfigs[k].density = 900 /\ InKey(k)

----------------------------------------------------------------------------
(* Properties of the player *)

\* isSlotActive(slotId)
isSlotActive(slotId) == MapHas(activeGestures, slotId)

\* getActiveSlots()
getActiveSlots == MapKeys(activeGestures)

\* the playback states of a slot that are alive: the one the map holds and any
\* that a pending timer still refers to
LiveStates(h, slotId) == { i \in DOMAIN h : IsSome(h[i]) /\ Get(h[i]).slotId = slotId }

\* C1: after successful triggerSlot(S) calls with no releaseSlot(S) since, the
\* player holds exactly one playback state for S (isSlotActive(S), S once in
\* getActiveSlots()), and it is the state the most recent trigger created.
C1_OnePlaybackState ==
    \A S \in DOMAIN sinceTrigger :
        IsSome(sinceTrigger[S]) =>
            /\ isSlotActive(S)
            /\ Cardinality({ i \in 1..Len(getActiveSlots) : getActiveSlots[i] = S }) = 1
            /\ LiveStates(heap, S) = { MapGet(activeGestures, S) }
            /\ LET last == Get(sinceTrigger[S])
                   st   == Get(heap[MapGet(activeGestures, S)])
               IN  /\ MapGet(activeGestures, S) = last.state
                   /\ st.gesture = last.gesture
                   /\ st.velocity = last.velocity
                   /\ st.startTime = last.at
                   /\ st.isLooping = last.isLooping

\* a slot whose playback had started has been triggered again, with a gesture
\* regenerated in between: its notes were stopped and one state is left
C1_Witness ==
    /\ lastCall.op = "triggerSlot"
    /\ IsSome(lastCall.result)
    /\ lastCall.args[1] = "played"
    /\ engineCalls # << >>
    /\ Get(lastCall.result).gesture.obj = 1

\* the entries of the active map that the release step releases
ReleasedEntries ==
    { i \in 1..Len(activeGestures) :
        lastCall'.op = "releaseAll" \/ activeGestures[i].slot = lastCall'.slot }

\* C2: after releaseSlot(S) or releaseAll(), the sounding-notes set of every
\* released slot is empty, and a noteOff has been issued to the engine for every
\* pitch that was in that slot's sounding set at the moment of release.
C2_NoStuckNotes ==
    [][ lastCall'.op \in { "releaseSlot", "releaseAll" } =>
          \A i \in ReleasedEntries :
              LET S   == activeGestures[i].slot
                  sid == activeGestures[i].state
              IN  /\ \A n \in SeqToSet(Get(heap[sid]).activeNotes) :
                        \E j \in 1..Len(engineCalls') :
                            engineCalls'[j] = [ op |-> "noteOff", note |-> n, velocity |-> 0 ]
                  /\ Get(releaseSlot(Player, S).heap[sid]).activeNotes = << >>
                  /\ IsSome(heap'[sid]) => Get(heap'[sid]).activeNotes = << >>
                  /\ ~MapHas(activeGestures', S) ]_vars

\* releaseAll() has released two slots with sounding notes: a noteOff for each
\* note, then allNotesOff
C2_Witness ==
    /\ lastCall.op = "releaseAll"
    /\ Len(engineCalls) >= 3
    /\ engineCalls[1].op = "noteOff"
    /\ engineCalls[2].op = "noteOff"
    /\ engineCalls[1].note # engineCalls[2].note
    /\ activeGestures = << >>

\* C3: releaseSlot(S) cancels every pending timer of S's playback (note-on,
\* note-off, loop restart, and those armed by earlier loop iterations): no timer
\* of a playback state of S is pending after it, and a noteOn is issued on behalf
\* of a slot only between a trigger of that slot and its next release.
C3_ReleaseCancelsTimers ==
    [][ /\ lastCall'.op = "releaseSlot" =>
              \A i \in 1..Len(timers') :
                  /\ IsSome(heap'[timers'[i].state])
                  /\ Get(heap'[timers'[i].state]).slotId # lastCall'.slot
        /\ \A j \in 1..Len(engineCalls') :
              engineCalls'[j].op = "noteOn" =>
                  /\ lastCall'.op = "playEvent"
                  /\ IsSome(sinceTrigger[lastCall'.slot]) ]_vars

\* releaseSlot has cleared note-on and note-off timers armed by a loop restart
\* together with the loop-restart timer itself
C3_Witness ==
    /\ lastCall.op = "releaseSlot"
    /\ << "loop", 0 >> \in lastCall.args[1]
    /\ \E x \in lastCall.args[1] : x[1] = "on" /\ x[2] > 0
    /\ \E x \in lastCall.args[1] : x[1] = "off" /\ x[2] > 0
    /\ timers = << >>

\* C4: re-triggering an active slot before any of its timers fire leaves exactly
\* one active playback state for the slot, that of the second trigger's Gesture,
\* and no pending timer that the first trigger armed.
C4_RetriggerBeforeTimersFire ==
    [][ (lastCall'.op = "triggerSlot" /\ IsSome(lastCall'.result)
            /\ lastCall'.args[1] = "fresh") =>
          LET S   == lastCall'.slot
              new == MapGet(activeGestures', S)
              st  == Get(heap'[new])
          IN  /\ Cardinality({ i \in 1..Len(activeGestures') : activeGestures'[i].slot = S }) = 1
              /\ LiveStates(heap', S) = { new }
              /\ st.gesture = gestures[S]
              /\ Get(lastCall'.result).gesture = gestures[S]
              /\ st.startTime = now
              /\ st.loopCount = 0
              /\ st.activeNotes = << >>
              /\ \A i \in 1..Len(timers') :
                    Get(heap'[timers'[i].state]).slotId = S =>
                        /\ timers'[i].state = new
                        /\ timers'[i].iter = 0
                        /\ timers'[i].fireAt >= now
                        /\ timers'[i].id \in st.timeoutIds \cup SeqToSet(st.intervalId)
              /\ Cardinality(TimersOf(timers', new)) = ArmedBy(st.gesture, st.isLooping) ]_vars

\* a slot has been triggered twice with no timer run in between, its gesture
\* regenerated between the two triggers, while another slot is playing
C4_Witness ==
    /\ lastCall.op = "triggerSlot"
    /\ IsSome(lastCall.result)
    /\ lastCall.args[1] = "fresh"
    /\ Get(lastCall.result).gesture.obj = 1
    /\ Len(activeGestures) = 2

----------------------------------------------------------------------------
(* Properties of the style registry *)

\* the step makes the palette call StyleRegistry.generate for the slot it names:
\* regenerateSlot or updateSlotConfig on an unlocked slot that has a config
GeneratesForSlot ==
    /\ lastCall'.op \in { "regenerateSlot", "updateSlotConfig" }
    /\ lastCall'.slot \in UnlockedSlots

\* C11: StyleRegistry.generate returns (never throws) for an unregistered styleId:
\* the Gesture it returns has zero events and no loop length, and its slotId and
\* role are those of the given SlotConfig; for a registered styleId it returns
\* exactly what that generator's generate returns.
C11_StyleRegistryGenerate ==
    [][ GeneratesForSlot =>
          LET k == lastCall'.slot
              c == slotConfigs'[k]
          IN  /\ k \in DOMAIN gestures'
              /\ gestures'[k].obj \notin { gestures[j].obj : j \in DOMAIN gestures \cap {k} }
              /\ ~RegistryHas(c.styleId) =>
                    /\ gestures'[k].typeId = "empty"
                    /\ gestures'[k].events = << >>
                    /\ gestures'[k].loopLengthBeats = None
                    /\ gestures'[k].slotId = c.slotId
                    /\ gestures'[k].role = c.role
              /\ RegistryHas(c.styleId) =>
                    gestures'[k] = GeneratorOutput(gestures'[k].obj, c, harmonicContext) ]_vars

\* updateSlotConfig has given a slot a style no generator is registered for, and
\* the cache holds the empty Gesture with that slot's id and role
C11_Witness ==
    /\ lastCall.op = "updateSlotConfig"
    /\ lastCall.slot \in UnlockedSlots
    /\ ~RegistryHas(slotConfigs[lastCall.slot].styleId)
    /\ gestures[lastCall.slot].events = << >>
    /\ gestures[lastCall.slot].slotId = lastCall.slot
    /\ gestures[lastCall.slot].role = slotConfigs[lastCall.slot].role
    /\ gestures[lastCall.slot].role # "chords"

----------------------------------------------------------------------------
(* Properties of triggering *)

\* the step is a triggerSlot call that finds no palette attached, no cached
\* Gesture for the slot, or a Gesture with zero events
TriggerFinds(what) ==
    /\ lastCall'.op = "triggerSlot"
    /\ CASE what = "no palette" -> ~palette
          [] what = "no gesture" -> palette /\ lastCall'.slot \notin DOMAIN gestures
          [] what = "no events"  -> /\ palette
                                    /\ lastCall'.slot \in DOMAIN gestures
                                    /\ gestures[lastCall'.slot].events = << >>

\* C12: when no palette is attached, or the slot has no cached Gesture, or the
\* Gesture has zero events, triggerSlot returns null, creates no playback state,
\* arms no timer, issues no engine call, and leaves the playback state the slot
\* has (its timers and sounding set) untouched.
C12_TriggerFailsWithoutSideEffects ==
    [][ (TriggerFinds("no palette") \/ TriggerFinds("no gesture") \/ TriggerFinds("no events")) =>
          /\ lastCall'.result = None
          /\ activeGestures' = activeGestures
          /\ heap' = heap
          /\ timers' = timers
          /\ engineCalls' = << >>
          /\ sinceTrigger' = sinceTrigger
          /\ gestures' = gestures ]_vars

\* triggerSlot has failed on a slot whose Gesture was replaced by an empty one
\* while it was playing: the slot is still active, with a sounding note and
\* pending timers
C12_Witness ==
    /\ lastCall.op = "triggerSlot"
    /\ lastCall.result = None
    /\ palette
    /\ lastCall.slot \in DOMAIN gestures
    /\ gestures[lastCall.slot].events = << >>
    /\ MapHas(activeGestures, lastCall.slot)
    /\ LET sid == MapGet(activeGestures, lastCall.slot)
       IN  /\ Get(heap[sid]).activeNotes # << >>
           /\ TimersOf(timers, sid) # {}
           /\ IsSome(sinceTrigger[lastCall.slot])

\* the step is a triggerSlot call that starts a playback
TriggerSucceeds == lastCall'.op = "triggerSlot" /\ IsSome(lastCall'.result)

\* C13: triggerSlot reports isLooping = (gesture.loopLengthBeats is not null AND
\* NOT forceOneShot); with forceOneShot = true no loop-restart timer is armed, and
\* a playback that does not loop issues at most one noteOn per event of the
\* Gesture for that trigger.
C13_IsLooping ==
    [][ /\ TriggerSucceeds =>
              LET S     == lastCall'.slot
                  force == lastCall'.args[2]
                  sid   == MapGet(activeGestures', S)
                  st    == Get(heap'[sid])
              IN  /\ Get(lastCall'.result).isLooping
                        = (IsSome(gestures[S].loopLengthBeats) /\ ~force)
                  /\ st.isLooping = Get(lastCall'.result).isLooping
                  /\ force =>
                        /\ st.intervalId = None
                        /\ \A i \in TimersOf(timers', sid) : timers'[i].kind # "loop"
        /\ \A S \in DOMAIN sinceTrigger' :
              (IsSome(sinceTrigger'[S]) /\ ~Get(sinceTrigger'[S]).isLooping) =>
                  /\ \A e \in DOMAIN Get(sinceTrigger'[S]).noteOns :
                        Get(sinceTrigger'[S]).noteOns[e] <= 1
                  /\ \A i \in TimersOf(timers', Get(sinceTrigger'[S]).state) :
                        timers'[i].kind # "loop" /\ timers'[i].iter = 0 ]_vars

\* a Gesture that has a loop length was triggered with forceOneShot: all its
\* events have sounded once, the loop length has passed, and nothing is pending
C13_Witness ==
    \E S \in DOMAIN sinceTrigger :
        /\ IsSome(sinceTrigger[S])
        /\ LET tr == Get(sinceTrigger[S])
           IN  /\ IsSome(tr.gesture.loopLengthBeats)
               /\ ~tr.isLooping
               /\ \A e \in DOMAIN tr.noteOns : tr.noteOns[e] = 1
               /\ now >= tr.at + Get(tr.gesture.loopLengthBeats) * getMsPerBeat(tr.tempo)
               /\ TimersOf(timers, tr.state) = {}

\* the pending timers of slots that are playing a looping Gesture, each with
\* its playback state and the trigger that created it
LoopingTimers ==
    { i \in 1..Len(timers) :
        LET st == Get(heap[timers[i].state])
        IN  /\ st.isLooping
            /\ MapHas(activeGestures, st.slotId)
            /\ MapGet(activeGestures, st.slotId) = timers[i].state
            /\ IsSome(sinceTrigger[st.slotId]) }

\* C14: for a looping Gesture with loopLengthBeats = L triggered at tempo T, the
\* scheduled fire time (relative to the trigger) of the event at offset t in loop
\* iteration k is k*L*msPerBeat(T) + t*msPerBeat(T), for every k >= 0 while the
\* slot is still scheduled; restart k + 1 is due at (k + 1)*L*msPerBeat(T).
C14_LoopPeriodicity ==
    \A i \in LoopingTimers :
        LET tm   == timers[i]
            st   == Get(heap[tm.state])
            tr   == Get(sinceTrigger[st.slotId])
            L    == Get(st.gesture.loopLengthBeats)
            mspb == getMsPerBeat(tr.tempo)
        IN  /\ tm.kind = "on" =>
                  /\ tm.iter \in 0..st.loopCount
                  /\ tm.fireAt - tr.at = tm.iter * L * mspb + st.gesture.events[tm.ev].time * mspb
            /\ tm.kind = "loop" =>
                  tm.fireAt - tr.at = (st.loopCount + 1) * L * mspb

\* a looping Gesture is in its second restart (k = 2) with a note-on pending, and
\* the tempo has been changed since it was triggered
C14_Witness ==
    \E i \in LoopingTimers :
        /\ timers[i].kind = "on"
        /\ timers[i].iter = 2
        /\ Get(heap[timers[i].state]).gesture.events[timers[i].ev].time > 0
        /\ tempo # Get(sinceTrigger[Get(heap[timers[i].state]).slotId]).tempo

\* the factor of a tag, thousandths
TagFactor(tag) ==
    CASE tag = Some("ghost") -> 400
      [] tag = Some("grace") -> 600
      [] tag = Some("accent") -> 1200
      [] tag = Some("pedal") -> 700
      [] OTHER -> 1000

\* event velocity times trigger velocity times the tag's factor, before clamping,
\* of the event the last playEvent played
PlayedProduct ==
    LET st == Get(heap[MapGet(activeGestures, lastCall.slot)])
        ev == st.gesture.events[lastCall.args[1]]
    IN  (((ev.velocity * st.velocity) \div 1000) * TagFactor(ev.tag)) \div 1000

\* playEvent has just sent a noteOn
PlayedNote == lastCall.op = "playEvent" /\ engineCalls # << >>

\* C15: every noteOn the player issues carries a velocity in [0.1, 1]: the
\* product of event velocity, trigger velocity and tag factor, clamped, for
\* every event velocity, trigger velocity and tag.
C15_NoteOnVelocity ==
    /\ \A i \in DOMAIN engineCalls :
          engineCalls[i].op = "noteOn" =>
             engineCalls[i].velocity >= 100 /\ engineCalls[i].velocity <= 1000
    /\ PlayedNote =>
          /\ Len(engineCalls) = 1
          /\ engineCalls[1].op = "noteOn"
          /\ engineCalls[1].velocity =
                IF PlayedProduct < 100 THEN 100
                ELSE IF PlayedProduct > 1000 THEN 1000 ELSE PlayedProduct

\* a ghost note whose product is positive but below the floor was raised to 0.1
C15_Witness ==
    /\ PlayedNote
    /\ PlayedProduct > 0
    /\ PlayedProduct < 100
    /\ engineCalls[1].velocity = 100

----------------------------------------------------------------------------
(* Properties of releaseAll *)

RECURSIVE NoteOffsOf(_)
\* the noteOffs owed to the entries of the active map, in the map's order
NoteOffsOf(entries) ==
    IF entries = << >> THEN << >>
    ELSE LET notes == Get(heap[Head(entries).state]).activeNotes
         IN  [ i \in 1..Len(notes) |-> noteOff(notes[i]) ] \o NoteOffsOf(Tail(entries))

\* C16: releaseAll() releases every slot that was active when it was called
\* (its notes stopped, its timers cleared, its entry removed), leaves
\* getActiveGestureCount() = 0, and issues exactly one engine.allNotesOff(),
\* after all the per-slot noteOffs.
C16_ReleaseAll ==
    [][ lastCall'.op = "releaseAll" =>
          /\ Len(activeGestures') = 0
          /\ engineCalls' = Append(NoteOffsOf(activeGestures), allNotesOff)
          /\ Cardinality({ j \in 1..Len(engineCalls') : engineCalls'[j] = allNotesOff }) = 1
          /\ \A i \in 1..Len(activeGestures) :
                LET sid == activeGestures[i].state
                IN  /\ TimersOf(timers', sid) = {}
                    /\ IsSome(heap'[sid]) =>
                          /\ Get(heap'[sid]).activeNotes = << >>
                          /\ Get(heap'[sid]).timeoutIds = {}
                          /\ Get(heap'[sid]).intervalId = None ]_vars

\* releaseAll() has released two active slots, one of them looping, with at
\* least one note sounding
C16_Witness ==
    /\ lastCall.op = "releaseAll"
    /\ Len(lastCall.args[2]) = 2
    /\ << "loop", 0 >> \in lastCall.args[1]
    /\ Len(engineCalls) >= 2
    /\ engineCalls[Len(engineCalls)] = allNotesOff
    /\ activeGestures = << >>
    /\ timers = << >>

----------------------------------------------------------------------------
(* Properties of the layout *)

\* C17: running initializeSlots() twice on a palette with minSlot = 36,
\* maxSlot = 96 and the same master seed produces identical slotConfigs maps
\* (same styleId, role, registerShift, parameters and seed for every slot): a
\* run that directly follows a run (the constructor's or a later one, whatever
\* was edited or locked before them) leaves every slot's fields as they were.
C17_LayoutDeterminism ==
    [][ lastCall'.op = "initializeSlots" =>
          /\ DOMAIN slotConfigs' = DefaultMinSlot..DefaultMaxSlot
          /\ \A k \in DOMAIN slotConfigs' : slotConfigs'[k].slotId = k
          /\ lastCall.op \in { "constructor", "initializeSlots" } =>
                \A k \in DOMAIN slotConfigs' :
                    LET mine == slotConfigs'[k]
                        first == slotConfigs[k]
                    IN  /\ mine.styleId = first.styleId
                        /\ mine.role = first.role
                        /\ mine.registerShift = first.registerShift
                        /\ mine.seed = first.seed
                        /\ << mine.density, mine.complexity, mine.tension,
                              mine.rhythmLoose, mine.motifVariation >>
                             = << first.density, first.complexity, first.tension,
                                  first.rhythmLoose, first.motifVariation >> ]_vars

\* initializeSlots() has run twice after the constructor, on all 61 slots
C17_Witness ==
    /\ lastCall.op = "initializeSlots"
    /\ lastCall.args[1]
    /\ budget = LayoutOps - 2
    /\ styleDistribution = InitialDistribution
    /\ Cardinality(DOMAIN slotConfigs) = 61
    /\ \A k \in DOMAIN slotConfigs : slotConfigs[k].obj = 0

----------------------------------------------------------------------------
(* Properties of generation *)

\* two Gestures with the same event list (times, pitches, velocities, durations
\* and tags, in the same order) and the same loop length
SameOutput(g, h) ==
    /\ Len(g.events) = Len(h.events)
    /\ \A i \in 1..Len(g.events) :
          /\ g.events[i].time = h.events[i].time
          /\ g.events[i].note = h.events[i].note
          /\ g.events[i].velocity = h.events[i].velocity
          /\ g.events[i].duration = h.events[i].duration
          /\ g.events[i].tag = h.events[i].tag
    /\ g.loopLengthBeats = h.loopLengthBeats

\* the slots a regeneration step generates again
Regenerated ==
    IF lastCall'.op = "regenerateAll" THEN DOMAIN slotConfigs
    ELSE IF lastCall'.op = "regenerateSlot" THEN DOMAIN slotConfigs \cap { lastCall'.slot }
    ELSE {}

----------------------------------------------------------------------------
(* Properties of SeededRandom *)

\* the two instances were asked the same first n calls
SameCalls(n) ==
    \A j \in 1..n :
        /\ rng.a.out[j].op = rng.b.out[j].op
        /\ rng.a.out[j].lo = rng.b.out[j].lo
        /\ rng.a.out[j].hi = rng.b.out[j].hi

\* C19: for every integer seed (positive, zero or negative), every call of
\* next() returns a value in [0, 1) - the internal state stays in
\* 1..2147483646 - and int(min, max) returns an integer in the inclusive range
\* [min, max]; two instances built from the same seed return the same sequence.
C19_SeededRandom ==
    /\ \A i \in Instances :
          /\ rng[i].state \in 1..(Modulus - 1)
          /\ \A j \in 1..Len(rng[i].out) :
                LET c == rng[i].out[j]
                IN  /\ c.op = "next" => c.value >= 0 /\ c.value < Modulus - 1
                    /\ c.op = "int" => c.value >= c.lo /\ c.value <= c.hi
    /\ \A n \in 1..Min(Len(rng.a.out), Len(rng.b.out)) :
          SameCalls(n) => rng.a.out[n].value = rng.b.out[n].value

----------------------------------------------------------------------------
(* Properties of locking *)

\* isSlotLocked(slotId) in the state before and after a step
WasLocked(slotId) == \E i \in 1..Len(lockedSlots) : lockedSlots[i] = slotId

NowLocked(slotId) == \E i \in 1..Len(lockedSlots') : lockedSlots'[i] = slotId

\* C20: toggleSlotLock(S) flips S's membership in the locked set and returns the
\* new lock state, which equals isSlotLocked(S) afterwards; two consecutive
\* toggles restore the original lock state; the call changes no SlotConfig and
\* no cached Gesture (and no other slot's lock).
C20_ToggleSlotLock ==
    [][ lastCall'.op = "toggleSlotLock" =>
          LET S     == lastCall'.slot
              again == toggleSlotLock(lockedSlots', S)
          IN  /\ NowLocked(S) = ~WasLocked(S)
              /\ lastCall'.result = Some(NowLocked(S))
              /\ \A k \in (minSlot..maxSlot) \ {S} : NowLocked(k) = WasLocked(k)
              /\ Cardinality({ i \in 1..Len(lockedSlots') : lockedSlots'[i] = S }) <= 1
              /\ again.result = WasLocked(S)
              /\ SeqToSet(again.lockedSlots) = SeqToSet(lockedSlots)
              /\ slotConfigs' = slotConfigs
              /\ gestures' = gestures ]_vars

\* a locked slot has been unlocked while another slot stays locked
C20_Witness ==
    /\ lastCall.op = "toggleSlotLock"
    /\ lastCall.result = Some(FALSE)
    /\ ~IsLockedIn(lockedSlots, lastCall.slot)
    /\ Len(lockedSlots) = 1
    /\ lockedSlots[1] \in DOMAIN gestures

----------------------------------------------------------------------------
(* Properties of the voice engine *)

\* the voices of the pool that are playing
ActiveVoices(e) == { i \in 1..Len(e.voices) : e.voices[i].active }

\* C21: the voice engine accepts note calls issued in excess: noteOff(p) for a
\* pitch that is not currently mapped to a voice changes no voice state (and
\* raises no error), and a repeated noteOn(p) for a pitch already sounding
\* re-uses its voice instead of allocating another one.
C21_ExcessNoteCalls ==
    [][ /\ (lastCall'.op = "engine.noteOff" /\ findVoiceByNote(engine, lastCall'.slot) = None)
              => engine' = engine
        /\ (lastCall'.op = "engine.noteOn" /\ Sounding(engine, lastCall'.slot)) =>
              LET n == lastCall'.slot
                  i == Get(findVoiceByNote(engine, n))
              IN  /\ engine'.activeNotes = engine.activeNotes
                  /\ ActiveVoices(engine') = ActiveVoices(engine)
                  /\ engine'.voices[i].note = Some(n)
                  /\ engine'.voices[i].active
                  /\ engine'.voices[i].startTime = now
                  /\ \A j \in 1..Len(engine.voices) :
                        j # i => engine'.voices[j] = engine.voices[j] ]_vars

\* a pitch that was sounding has been played again while every voice of the
\* reduced pool was busy
C21_Witness ==
    /\ lastCall.op = "engine.noteOn"
    /\ lastCall.args[1]
    /\ Len(engine.voices) = PoolSize
    /\ ActiveVoices(engine) = 1..PoolSize
    /\ now > 0

----------------------------------------------------------------------------
(* Properties of stale callbacks *)

\* a successful triggerSlot of a slot that was playing
Supersedes ==
    /\ lastCall'.op = "triggerSlot"
    /\ IsSome(lastCall'.result)
    /\ MapHas(activeGestures, lastCall'.slot)

\* the entries of the active map whose playback state a step retires: the slot
\* is idle afterwards, or has been triggered again
Retired ==
    { i \in 1..Len(activeGestures) :
        \/ ~MapHas(activeGestures', activeGestures[i].slot)
        \/ Supersedes /\ activeGestures[i].slot = lastCall'.slot }

\* the retired entries whose slot is idle afterwards
RetiredIdle == { i \in Retired : ~MapHas(activeGestures', activeGestures[i].slot) }

\* the playback state object of entry i as release leaves it
AfterRelease(i) ==
    Get(releaseSlot(Player, activeGestures[i].slot).heap[activeGestures[i].state])

\* playEvent and stopEvent, called in the state after the step with a retired
\* playback state and one of its events, do nothing
SilentAfterwards(st, ev) ==
    /\ (playEvent(st, ev, st.velocity).calls = << >>)'
    /\ (playEvent(st, ev, st.velocity).state = st)'
    /\ (stopEvent(st, ev).calls = << >>)'
    /\ (stopEvent(st, ev).state = st)'

\* C22 as stated: a callback that belongs to a released or superseded playback
\* state is a silent no-op: if a note-on or note-off callback of an earlier
\* trigger of slot S runs after S was released - including after S has since
\* been re-triggered - it issues no noteOn/noteOff and adds no pitch to any
\* sounding set.
C22_StaleCallbacksAnyTime ==
    [][ \A i \in Retired :
          \A st \in { AfterRelease(i) } : \A e \in 1..Len(st.gesture.events) :
              \A ev \in { st.gesture.events[e] } : SilentAfterwards(st, ev) ]_vars

\* C22, amended: the callbacks of a released playback state are silent no-ops
\* while the slot is idle; no callback of a released or superseded state is
\* pending at all: every pending timer belongs to the active state of its slot,
\* and after a re-trigger the slot's pending timers are those the re-trigger armed.
C22_StaleCallbacks ==
    [][ /\ \A i \in RetiredIdle :
              \A st \in { AfterRelease(i) } : \A e \in 1..Len(st.gesture.events) :
                  \A ev \in { st.gesture.events[e] } : SilentAfterwards(st, ev)
        /\ \A j \in 1..Len(timers') :
              LET sid == timers'[j].state
              IN  /\ IsSome(heap'[sid])
                  /\ MapHas(activeGestures', Get(heap'[sid]).slotId)
                  /\ MapGet(activeGestures', Get(heap'[sid]).slotId) = sid
        /\ Supersedes =>
              LET sid == MapGet(activeGestures', lastCall'.slot)
                  st  == Get(heap'[sid])
              IN  Cardinality(TimersOf(timers', sid)) = ArmedBy(st.gesture, st.isLooping) ]_vars

\* a slot has been released while note-on and note-off callbacks of its playback
\* were pending, and is idle
C22_Witness ==
    /\ lastCall.op = "releaseSlot"
    /\ ~MapHas(activeGestures, lastCall.slot)
    /\ \E x \in lastCall.args[1] : x[1] = "on"
    /\ \E x \in lastCall.args[1] : x[1] = "off"
    /\ Len(activeGestures) = 1

----------------------------------------------------------------------------
(* Properties of the sounding set *)

\* the pitches of a Gesture
PitchesOf(gesture) == { gesture.events[i].note : i \in 1..Len(gesture.events) }

\* C23: in every reachable state, the sounding-notes set of the active playback
\* state of slot S is a subset of the pitches of the Gesture that the most
\* recent successful triggerSlot(S) captured.
C23_SoundingSubset ==
    \A i \in 1..Len(activeGestures) :
        LET S  == activeGestures[i].slot
            st == Get(heap[activeGestures[i].state])
        IN  /\ IsSome(sinceTrigger[S])
            /\ st.gesture = Get(sinceTrigger[S]).gesture
            /\ SeqToSet(st.activeNotes) \subseteq PitchesOf(Get(sinceTrigger[S]).gesture)

\* a slot has a note sounding while the palette's cached Gesture for it is no
\* longer the one the trigger captured
C23_Witness ==
    \E i \in 1..Len(activeGestures) :
        LET S  == activeGestures[i].slot
            st == Get(heap[activeGestures[i].state])
        IN  /\ st.activeNotes # << >>
            /\ gestures[S].events # st.gesture.events

----------------------------------------------------------------------------
(* Properties of the per-slot state machine *)

\* getActiveGestureCount()
getActiveGestureCount == Len(activeGestures)

\* the call of the step is a triggerSlot(S) that returned a result
TriggeredNow(S) ==
    lastCall'.op = "triggerSlot" /\ lastCall'.slot = S /\ IsSome(lastCall'.result)

\* the call of the step is releaseSlot(S) or releaseAll()
ReleasedNow(S) ==
    \/ lastCall'.op = "releaseSlot" /\ lastCall'.slot = S
    \/ lastCall'.op = "releaseAll"

\* the active one-shot playbacks that have no timer pending
FinishedOneShots ==
    { i \in 1..Len(activeGestures) :
        /\ ~Get(heap[activeGestures[i].state]).isLooping
        /\ TimersOf(timers, activeGestures[i].state) = {} }

\* C24: a slot becomes active only in a step that is a successful triggerSlot of
\* it, and after such a step it is active (the release inside a re-trigger is
\* followed by the new entry); a slot becomes idle only in a releaseSlot of it
\* or a releaseAll; a playEvent, stopEvent or loop restart leaves the active map
\* as it is, so a one-shot playback whose timers have all fired stays active,
\* and counted, until it is released.
C24_SlotStateMachine ==
    [][ /\ \A S \in SlotIds :
              /\ (~isSlotActive(S) /\ isSlotActive(S)') => TriggeredNow(S)
              /\ (isSlotActive(S) /\ ~isSlotActive(S)') => ReleasedNow(S)
              /\ TriggeredNow(S) => isSlotActive(S)'
        /\ lastCall'.op \in { "playEvent", "stopEvent", "loopRestart", "tick" }
              => activeGestures' = activeGestures
        /\ \A S \in { activeGestures[i].slot : i \in FinishedOneShots } :
              ~ReleasedNow(S) => isSlotActive(S)' /\ getActiveGestureCount' >= 1 ]_vars

\* a one-shot playback whose last timer has just fired, every event played, is
\* still active and counted
C24_Witness ==
    /\ lastCall.op = "stopEvent"
    /\ \E i \in FinishedOneShots :
          LET S == activeGestures[i].slot
          IN  /\ lastCall.slot = S
              /\ IsSome(sinceTrigger[S])
              /\ \A e \in DOMAIN Get(sinceTrigger[S]).noteOns :
                    Get(sinceTrigger[S]).noteOns[e] = 1
              /\ isSlotActive(S)
              /\ getActiveGestureCount >= 1

----------------------------------------------------------------------------
(* Liveness of a one-shot playback *)

\* the slot ids of the liveness specification
LiveSlotIds == DefaultMinSlot .. (DefaultMinSlot + LiveSlots)

\* slot S plays a one-shot: triggered, and not released since
OneShotPlaying(S) == IsSome(sinceTrigger[S]) /\ ~Get(sinceTrigger[S]).isLooping

\* event e of the Gesture slot S plays
EventOf(S, e) == Get(sinceTrigger[S]).gesture.events[e]

\* the sounding set of slot S
SoundingSet(S) ==
    IF isSlotActive(S) THEN SeqToSet(Get(heap[MapGet(activeGestures, S)]).activeNotes) ELSE {}

\* every event of the one-shot of slot S has had its noteOn, once
AllPlayedOnce(S) ==
    \A e \in DOMAIN Get(sinceTrigger[S]).noteOns : Get(sinceTrigger[S]).noteOns[e] = 1

\* event e of the one-shot of slot S lasts, has had its noteOn, and its pitch sounds
SoundsAfterNoteOn(S, e) ==
    /\ OneShotPlaying(S)
    /\ e \in DOMAIN Get(sinceTrigger[S]).noteOns
    /\ EventOf(S, e).duration > 0
    /\ Get(sinceTrigger[S]).noteOns[e] = 1
    /\ EventOf(S, e).note \in SoundingSet(S)

\* the one-shot of slot S has been released or triggered again, or the pitch of
\* its event e has left the sounding set
RemovedOrInterrupted(S, e) ==
    \/ ~OneShotPlaying(S)
    \/ e \notin DOMAIN Get(sinceTrigger[S]).noteOns
    \/ Get(sinceTrigger[S]).noteOns[e] = 0
    \/ EventOf(S, e).note \notin SoundingSet(S)

\* while the playback of slot S goes on, a pitch leaves its sounding set only in
\* a stopEvent step that issues the noteOff of that pitch
RemovedByNoteOff(S) ==
    \A p \in SoundingSet(S) :
        (isSlotActive(S)' /\ p \notin SoundingSet(S)' /\ ~TriggeredNow(S))
           => /\ lastCall'.op = "stopEvent"
              /\ lastCall'.slot = S
              /\ engineCalls' = << noteOff(p) >>

\* C25: a triggered one-shot that is not released or triggered again gets, for
\* every event of its Gesture, exactly one noteOn; no event ever gets a second
\* one; and for every event with duration > 0, once its noteOn is issued, its
\* pitch leaves the slot's sounding set later on, which only a stopEvent issuing
\* the noteOff of that pitch does.
C25_OneShotLiveness ==
    /\ \A S \in LiveSlotIds :
          OneShotPlaying(S) ~> (~OneShotPlaying(S) \/ AllPlayedOnce(S))
    /\ \A S \in LiveSlotIds :
          [](OneShotPlaying(S) =>
                \A e \in DOMAIN Get(sinceTrigger[S]).noteOns :
                    Get(sinceTrigger[S]).noteOns[e] <= 1)
    /\ \A S \in LiveSlotIds : \A e \in 1..LiveEvents :
          SoundsAfterNoteOn(S, e) ~> RemovedOrInterrupted(S, e)
    /\ [][\A S \in LiveSlotIds : RemovedByNoteOff(S)]_vars

\* a one-shot triggered a second time has played every event once, its timers
\* have all fired and nothing sounds any more
C25_Witness ==
    \E S \in LiveSlotIds :
        /\ budget = 0
        /\ OneShotPlaying(S)
        /\ AllPlayedOnce(S)
        /\ \E e \in DOMAIN Get(sinceTrigger[S]).noteOns : EventOf(S, e).duration > 0
        /\ lastCall.op = "stopEvent"
        /\ SoundingSet(S) = {}
        /\ timers = << >>

----------------------------------------------------------------------------
(* Properties of stopEvent *)

\* the pitches the step's engine calls turn off
TurnedOff == { engineCalls'[i].note : i \in { j \in 1..Len(engineCalls') : engineCalls'[j].op = "noteOff" } }

\* the pitches the step's engine calls turn on
TurnedOn == { engineCalls'[i].note : i \in { j \in 1..Len(engineCalls') : engineCalls'[j].op = "noteOn" } }

\* the pitch of the event whose timer the step has run, for a step of slot S
PitchOfStep(S) ==
    Get(heap[MapGet(activeGestures, S)]).gesture.events[lastCall'.args[1]].note

\* C26: a stopEvent step issues at most the noteOff of its event's pitch, and
\* issues it exactly when that pitch is in the slot's sounding set, from which
\* the step removes it; in every step a noteOff is issued only for a pitch in a
\* sounding set, which the step removes, and a pitch enters a sounding set only
\* in a step that issues its noteOn.  So between two noteOffs of a pitch for one
\* playback state there is a noteOn of that pitch, also when the events sharing
\* the pitch overlap.
C26_StopEvent ==
    [][ /\ \A S \in SlotIds :
              (lastCall'.op = "stopEvent" /\ lastCall'.slot = S) =>
                 \E p \in { PitchOfStep(S) } :
                    /\ engineCalls' = IF p \in SoundingSet(S) THEN << noteOff(p) >> ELSE << >>
                    /\ p \notin SoundingSet(S)'
                    /\ SoundingSet(S)' = SoundingSet(S) \ {p}
        /\ \A p \in TurnedOff :
              \E S \in SlotIds : p \in SoundingSet(S) /\ (p \notin SoundingSet(S)' \/ TriggeredNow(S))
        /\ \A S \in SlotIds : \A p \in SoundingSet(S)' :
              (p \notin SoundingSet(S) \/ TriggeredNow(S)) => p \in TurnedOn ]_vars

\* the release timer of an event has run while its pitch, shared with an
\* overlapping event whose release came first, was no longer sounding: no call
C26_Witness ==
    /\ lastCall.op = "stopEvent"
    /\ engineCalls = << >>
    /\ isSlotActive(lastCall.slot)
    /\ \E st \in { Get(heap[MapGet(activeGestures, lastCall.slot)]) } :
          /\ Get(sinceTrigger[lastCall.slot]).noteOns[lastCall.args[1]] >= 1
          /\ \E e \in DOMAIN st.gesture.events :
                /\ e # lastCall.args[1]
                /\ st.gesture.events[e].note = st.gesture.events[lastCall.args[1]].note
                /\ Get(sinceTrigger[lastCall.slot]).noteOns[e] >= 1

----------------------------------------------------------------------------
(* Properties of the loop restart *)

\* what a restart at the present time arms for the events of a Gesture: the
\* kind, the event and the time due of every timer
RestartArms(gesture, mspb) ==
    { << "on", e, now + gesture.events[e].time * mspb >> : e \in DOMAIN gesture.events }
      \cup { << "off", e, now + (gesture.events[e].time + gesture.events[e].duration) * mspb >> :
               e \in { x \in DOMAIN gesture.events : gesture.events[x].duration > 0 } }

\* the timers of playback state sid armed by its restart number n, as above
ArmedInRestart(ts, sid, n) ==
    { << ts[j].kind, ts[j].ev, ts[j].fireAt >> :
        j \in { x \in 1..Len(ts) : ts[x].state = sid /\ ts[x].iter = n /\ ts[x].kind # "loop" } }

\* C27: a loop restart of slot S arms the events of the Gesture the trigger
\* captured, each at its own offset, and the playback keeps that Gesture, also
\* when the palette's cached Gesture of the slot has been replaced since.
C27_LoopKeepsGesture ==
    [][ \A S \in SlotIds :
          (lastCall'.op = "loopRestart" /\ lastCall'.slot = S) =>
             \E sid \in { MapGet(activeGestures, S) } :
             \E captured \in { Get(sinceTrigger[S]).gesture } :
                /\ Get(heap[sid]).gesture = captured
                /\ (Get(heap[sid]).gesture = captured)'
                /\ Get(heap'[sid]).loopCount = Get(heap[sid]).loopCount + 1
                /\ ArmedInRestart(timers', sid, Get(heap'[sid]).loopCount)
                     = RestartArms(captured, getMsPerBeat(Get(sinceTrigger[S]).tempo)) ]_vars

\* a loop has restarted after the palette replaced the slot's cached Gesture by
\* one with other events
C27_Witness ==
    /\ lastCall.op = "loopRestart"
    /\ isSlotActive(lastCall.slot)
    /\ \E st \in { Get(heap[MapGet(activeGestures, lastCall.slot)]) } :
          /\ st.loopCount >= 1
          /\ gestures[lastCall.slot].events # st.gesture.events
          /\ gestures[lastCall.slot].events # << >>

----------------------------------------------------------------------------
(* Properties of the tempo *)

\* the timers of the kinds a playback arms
KindsPending == { timers[i].kind : i \in 1..Len(timers) }

\* timer j after the step is timer i before it, armed no later than the step
SameTimer(i, j) ==
    /\ timers'[j].id = timers[i].id
    /\ ~(lastCall'.op = "triggerSlot" /\ IsSome(lastCall'.result)
           /\ Get(heap[timers[i].state]).slotId = lastCall'.slot)

\* the step is the restart that the interval timer i fires
RestartOf(i) ==
    /\ timers[i].kind = "loop"
    /\ lastCall'.op = "loopRestart"
    /\ lastCall'.slot = Get(heap[timers[i].state]).slotId

\* C28: setTempo leaves every armed timer as it is, and no step at all moves an
\* armed note-on, note-off or loop-restart timer: a timer that is still armed
\* after a step is due when it was due before, with the period and the ms per
\* beat it had (an interval that has just fired is due one unchanged period later).
C28_TempoNotRetroactive ==
    [][ /\ lastCall'.op = "setTempo" => (timers' = timers /\ heap' = heap)
        /\ \A i \in 1..Len(timers) : \A j \in 1..Len(timers') :
              SameTimer(i, j) =>
                 /\ timers'[j].period = timers[i].period
                 /\ timers'[j].mspb = timers[i].mspb
                 /\ timers'[j].fireAt =
                       IF RestartOf(i) THEN timers[i].fireAt + timers[i].period
                                       ELSE timers[i].fireAt ]_vars

\* setTempo has changed the tempo while a note-on, a note-off and a loop-restart
\* timer were armed
C28_Witness ==
    /\ lastCall.op = "setTempo"
    /\ { "on", "off", "loop" } \subseteq KindsPending
    /\ \E i \in 1..Len(timers) : timers[i].mspb # getMsPerBeat(tempo)

\* the step is a loop restart of slot S, and what it arms is what a restart
\* arms at the given ms per beat
RestartArmsAt(S, mspb) ==
    \E sid \in { MapGet(activeGestures, S) } :
        ArmedInRestart(timers', sid, Get(heap[sid]).loopCount + 1)
           = RestartArms(Get(heap[sid]).gesture, mspb)

\* C29 as stated: the events armed by a loop restart are delayed according to
\* the tempo at the time of the restart.  It fails for a restart that comes
\* after a setTempo to another tempo.
C29_RestartReadsTempo ==
    [][ \A S \in SlotIds :
          (lastCall'.op = "loopRestart" /\ lastCall'.slot = S)
             => RestartArmsAt(S, getMsPerBeat(tempo)) ]_vars

\* C29 (as amended): the ms per beat is read once per triggerSlot: the timers a
\* successful triggerSlot arms are delayed according to the tempo at the time
\* of the call, and the events armed by every loop restart of that playback are
\* delayed according to that same tempo, whatever the tempo is at the restart.
C29_TriggerReadsTempo ==
    [][ \A S \in SlotIds :
          /\ TriggeredNow(S) =>
                \E sid \in { MapGet(activeGestures', S) } :
                   /\ Get(sinceTrigger'[S]).tempo = tempo
                   /\ ArmedInRestart(timers', sid, 0)
                        = RestartArms(Get(heap'[sid]).gesture, getMsPerBeat(tempo))
                   /\ \A j \in TimersOf(timers', sid) : timers'[j].mspb = getMsPerBeat(tempo)
          /\ (lastCall'.op = "loopRestart" /\ lastCall'.slot = S) =>
                /\ RestartArmsAt(S, getMsPerBeat(Get(sinceTrigger[S]).tempo))
                /\ \A j \in TimersOf(timers', MapGet(activeGestures, S)) :
                      timers'[j].mspb = getMsPerBeat(Get(sinceTrigger[S]).tempo) ]_vars

\* a loop has restarted at a tempo other than the one its slot was triggered
\* at, arming an event that is not at offset 0
C29_Witness ==
    /\ lastCall.op = "loopRestart"
    /\ isSlotActive(lastCall.slot)
    /\ tempo # Get(sinceTrigger[lastCall.slot]).tempo
    /\ \E sid \in { MapGet(activeGestures, lastCall.slot) } :
          \E j \in TimersOf(timers, sid) :
             /\ timers[j].kind = "on"
             /\ timers[j].iter = Get(heap[sid]).loopCount
             /\ timers[j].iter >= 1
             /\ Get(heap[sid]).gesture.events[timers[j].ev].time > 0

----------------------------------------------------------------------------
(* Properties of the generated timing *)

\* C30: every Event a generator produces has time >= 0 and duration >= 0, and
\* applyMicrotiming never returns a negative time.  It fails for the
\* fracturedLead generator with rhythmLoose = 0 and tension > 0.7, when the
\* grace note drawn for the first note of the motif is placed at -0.05.
C30_NonNegativeTiming ==
    /\ lastCall.op = "generate" =>
          \A i \in 1..Len(Get(lastCall.result)) :
              /\ Get(lastCall.result)[i].time >= 0
              /\ Get(lastCall.result)[i].duration >= 0
    /\ lastCall.op = "applyMicrotiming" => Get(lastCall.result) >= 0

----------------------------------------------------------------------------
(* The loop length of the lyricalMinimal style *)

\* SlotConfigs of the lyricalMinimal style: integer seeds, normalized parameters
\* in thousandths, a complexity of at most 0.5
LoopLengthConfigs ==
    { [ styleId |-> "lyricalMinimal", seed |-> seed, complexity |-> complexity,
        density |-> density, rhythmLoose |-> rhythmLoose ] :
        seed \in { 1, 12, 31969, 64011, 64270, 500000 },
        complexity \in { 0, 500 },
        density \in { 0, 500, 1000 },
        rhythmLoose \in { 0, 300, 1000 } }

InitLoopLength == InitWith(TriggerSlots, TriggerOps)

\* the LyricalMinimalGenerator generates for a config
GenerateLyricalMinimal(config) ==
    /\ lastCall' = Call("generate", 0, << config >>, Some(lyricalMinimal(config)))
    /\ engineCalls' = << >>
    /\ UNCHANGED << paletteVars, playerVars, budget, rng, engine >>

NextLoopLength == \E config \in LoopLengthConfigs : GenerateLyricalMinimal(config)

SpecLoopLength == InitLoopLength /\ [][NextLoopLength]_vars

\* the Gesture the lyricalMinimal generator returned last
LyricalGesture == Get(lastCall.result)

GeneratedLyrical ==
    /\ lastCall.op = "generate"
    /\ lastCall.args[1].styleId = "lyricalMinimal"

\* C31: every Gesture the lyricalMinimal generator returns with a loop length
\* has a loop length (in beats) of at least its total span, the greatest
\* time + duration of its events
C31_LoopCoversSpan ==
    GeneratedLyrical /\ IsSome(LyricalGesture.loopLengthBeats)
        => Get(LyricalGesture.loopLengthBeats) * 10000 >= totalDuration(LyricalGesture.events)

----------------------------------------------------------------------------
(* The palette's two maps *)

\* C32: after construction and after any sequence of palette operations, every
\* key of gestures is a key of slotConfigs, and every slot id from minSlot to
\* maxSlot has both a SlotConfig and a cached Gesture.
C32_MapInvariant ==
    /\ DOMAIN gestures \subseteq DOMAIN slotConfigs
    /\ \A k \in minSlot..maxSlot : k \in DOMAIN slotConfigs /\ k \in DOMAIN gestures

\* a bulk operation that respects the locks has run with a slot locked, after
\* the lock was set: both maps hold every slot of the range, the locked one too
C32_Witness ==
    /\ lastCall.op \in { "regenerateAll", "randomizeDistribution", "evolveUnlockedSlots" }
    /\ lastCall.op = "regenerateAll" => lastCall.args = << TRUE >>
    /\ \E k \in minSlot..maxSlot :
          /\ IsLockedIn(lockedSlots, k)
          /\ k \in DOMAIN gestures
          /\ gestures[k].obj = 0
    /\ \E j \in minSlot..maxSlot : ~IsLockedIn(lockedSlots, j) /\ gestures[j].obj # 0

----------------------------------------------------------------------------
(* weightedChoice and the styles of the SlotConfigs *)

\* distributions weightedChoice is given: the constructor's, one whose keys are
\* all unregistered, one with a single registered key among unregistered ones,
\* an empty one, and one of registered keys only
Distributions ==
    { InitialDistribution,
      << [style |-> "ambientTexture", weight |-> 600],
         [style |-> "bocTexture",     weight |-> 400] >>,
      << [style |-> "bocTexture",     weight |-> 900],
         [style |-> "fracturedLead",  weight |-> 100] >>,
      << >>,
      << [style |-> "tintinnabuli",   weight |-> 500],
         [style |-> "aliceCascade",   weight |-> 500] >> }

\* seeds of the generator weightedChoice draws from
ChoiceSeeds == { 1, 12, MasterSeed, 31969, 64011, 500000, 1700000000, Modulus - 2 }

\* weightedChoice(weights, rng) on a generator seeded with seed
WeightedChoice(weights, seed) ==
    /\ lastCall' = Call("weightedChoice", 0, << weights, seed >>,
                        Some(weightedChoice(weights, SeededRandom(seed)).style))
    /\ engineCalls' = << >>
    /\ UNCHANGED << paletteVars, playerVars, budget, rng, engine >>

InitChoice == InitWith(PaletteSlots, PaletteOps)

NextChoice ==
    \/ \E weights \in Distributions, seed \in ChoiceSeeds : WeightedChoice(weights, seed)
    \/ InitializeSlots
    \/ \E d \in DateNows : RandomizeDistribution(d)

SpecChoice == InitChoice /\ [][NextChoice]_vars

\* the keys of a distribution that are registered
RegisteredKeys(weights) == { i \in 1..Len(weights) : RegistryHas(weights[i].style) }

\* C33: weightedChoice returns only registered style ids, and 'lyricalMinimal'
\* when none of the distribution's keys is registered; every SlotConfig that
\* initializeSlots or randomizeDistribution created names a registered style.
C33_RegisteredStyles ==
    /\ lastCall.op = "weightedChoice" =>
          /\ RegistryHas(Get(lastCall.result))
          /\ RegisteredKeys(lastCall.args[1]) = {} => lastCall.result = Some("lyricalMinimal")
          /\ RegisteredKeys(lastCall.args[1]) # {} =>
                \E i \in RegisteredKeys(lastCall.args[1]) :
                    lastCall.result = Some(lastCall.args[1][i].style)
    /\ \A k \in DOMAIN slotConfigs : RegistryHas(slotConfigs[k].styleId)

\* weightedChoice has fallen back on a distribution of unregistered keys only
C33_Witness ==
    /\ lastCall.op = "weightedChoice"
    /\ lastCall.args[1] # << >>
    /\ RegisteredKeys(lastCall.args[1]) = {}
    /\ lastCall.result = Some("lyricalMinimal")
    /\ \E k \in DOMAIN slotConfigs : slotConfigs[k].obj # 0

----------------------------------------------------------------------------
(* The cache and the configs *)

\* the step is an operation that regenerates every unlocked slot
RegeneratesUnlocked ==
    \/ HarmonyChanges
    \/ lastCall'.op \in { "regenerateAll", "randomizeDistribution", "evolveUnlockedSlots" }

\* the step is an operation on one slot, which is not locked
RegeneratesOne(k) ==
    /\ lastCall'.op \in { "updateSlotConfig", "regenerateSlot" }
    /\ lastCall'.slot = k
    /\ ~IsLockedIn(lockedSlots, k)

\* C34 (as amended): setHarmony with a new harmony, regenerateAll,
\* randomizeDistribution and evolveUnlockedSlots leave the cached Gesture of
\* every unlocked slot equal to the one the registry generates from the slot's
\* current SlotConfig and the current HarmonicContext, updateSlotConfig and
\* regenerateSlot do so for the unlocked slot they are given, and no operation
\* takes a slot that is and stays unlocked out of that state; toggleSlotLock
\* regenerates nothing.
C34_CacheConsistency ==
    [][ /\ \A k \in DOMAIN slotConfigs :
              /\ (RegeneratesUnlocked \/ RegeneratesOne(k)) /\ ~IsLockedIn(lockedSlots, k)
                    => InKey(k)'
              /\ ~IsLockedIn(lockedSlots, k) /\ ~IsLockedIn(lockedSlots', k) /\ InKey(k)
                    => InKey(k)'
        /\ lastCall'.op = "toggleSlotLock" =>
              /\ gestures' = gestures
              /\ slotConfigs' = slotConfigs
              /\ harmonicContext' = harmonicContext ]_vars

\* C34 as stated, in every state: it fails once toggleSlotLock unlocks a slot
\* whose config or harmony changed while it was locked.
C34_UnlockedInKey == \A k \in UnlockedSlots : InKey(k)

\* toggleSlotLock has unlocked a slot whose gesture predates a change of harmony
\* or of its config, next to an unlocked slot regenerated by that change
C34_Witness ==
    /\ lastCall.op = "toggleSlotLock"
    /\ lastCall.result = Some(FALSE)
    /\ lastCall.slot \in UnlockedSlots
    /\ ~InKey(lastCall.slot)
    /\ \E j \in UnlockedSlots : InKey(j) /\ gestures[j].obj = 1

----------------------------------------------------------------------------
(* The engine's note map *)

\* an engine constructed with a pool of PoolSize voices, next to a default
\* palette and player: new PolyphonicEngine(audioContext, PoolSize)
InitVoices ==
    /\ InitHostWith(TriggerSlots, TriggerOps, PoolSize)
    /\ InitGestures
    /\ palette = TRUE
    /\ rng = RngPair(MasterSeed)

\* the engine driven by noteOn, noteOff and allNotesOff, while the audio clock advances
NextVoices ==
    \/ \E n \in Pitches : EngineNoteOn(n)
    \/ \E n \in Pitches : EngineNoteOff(n)
    \/ EngineAllNotesOff
    \/ Tick

SpecVoices == InitVoices /\ [][NextVoices]_vars

\* activeNotes maps a note only to a voice of the pool that is active and is
\* playing that note
Bookkeeping(e) ==
    \A n \in DOMAIN e.activeNotes :
        /\ e.activeNotes[n] \in 1..Len(e.voices)
        /\ e.voices[e.activeNotes[n]].active
        /\ e.voices[e.activeNotes[n]].note = Some(n)

\* C37: after any sequence of noteOn, noteOff and allNotesOff, activeNotes maps
\* a note n to a voice v only if v is active and v's current note is n.
C37_Bookkeeping == Bookkeeping(engine)

\* the voices the step silences although they are playing another note than n
SilencedOthers(n) ==
    { i \in 1..Len(engine.voices) :
        /\ engine.voices[i].active
        /\ engine.voices[i].note # Some(n)
        /\ ~engine'.voices[i].active }

\* the consequence C37 draws: noteOff(n) silences no voice that is playing a
\* different note
NoteOffSparesOthers ==
    [][ lastCall'.op = "engine.noteOff" => SilencedOthers(lastCall'.slot) = {} ]_vars

----------------------------------------------------------------------------
(* Player and engine composed *)

RECURSIVE deliver(_, _, _)
\* the engine after the calls a handler of the player has made on it, in order
deliver(e, calls, time) ==
    IF calls = << >> THEN e
    ELSE LET c  == Head(calls)
             e1 == IF c.op = "noteOn" THEN engineNoteOn(e, c.note, time)
                   ELSE IF c.op = "noteOff" THEN engineNoteOff(e, c.note)
                   ELSE engineAllNotesOff(e)
         IN  IF Len(e1.voices) = 0 THEN e1 ELSE deliver(e1, Tail(calls), time)

\* the Gestures of two slots that share pitch 60 and play three pitches between them
ComposedEvents ==
    << << GestureEvent(0, 60, 1000, 2, None), GestureEvent(1, 62, 1000, 2, None) >>,
       << GestureEvent(0, 60, 1000, 3, None), GestureEvent(1, 64, 1000, 1, None) >> >>

\* the player on an engine of PoolSize voices, the palette caching Gestures that
\* share a pitch across slots and loop (forceOneShot plays them once)
InitComposed ==
    /\ InitHostWith(PlayerSlots, ComposedOps, PoolSize)
    /\ gestures = [ k \in DOMAIN slotConfigs |->
                      Gesture(0, slotConfigs[k].styleId, k, slotConfigs[k].role,
                              ComposedEvents[k - minSlot + 1], Some(2)) ]
    /\ palette = TRUE
    /\ rng = RngPair(MasterSeed)

\* triggerSlot, its engine calls reaching the engine
TriggerSlotOnEngine(slotId, velocity, forceOneShot) ==
    /\ budget > 0
    /\ CallTriggerSlot(slotId, velocity, forceOneShot)
    /\ engine' = deliver(engine, engineCalls', now)
    /\ budget' = budget - 1

\* releaseSlot, its engine calls reaching the engine
ReleaseSlotOnEngine(slotId) ==
    /\ CallReleaseSlot(slotId)
    /\ engine' = deliver(engine, engineCalls', now)

\* releaseAll, its engine calls reaching the engine
ReleaseAllOnEngine ==
    /\ CallReleaseAll
    /\ engine' = deliver(engine, engineCalls', now)

\* a due setTimeout callback, its engine call reaching the engine
FireTimeoutOnEngine(i) ==
    /\ RunTimeout(i)
    /\ engine' = deliver(engine, engineCalls', now)

NextComposed ==
    \/ \E k \in SlotIds, v \in Velocities, f \in BOOLEAN : TriggerSlotOnEngine(k, v, f)
    \/ \E k \in minSlot..maxSlot : ReleaseSlotOnEngine(k)
    \/ ReleaseAllOnEngine
    \/ \E i \in DueIndex(timers) : FireTimeoutOnEngine(i)
    \/ \E i \in DueIndex(timers) : FireInterval(i)
    \/ Tick

SpecComposed == InitComposed /\ [][NextComposed]_vars

----------------------------------------------------------------------------
(* Slot isolation *)

\* the call of the step is triggerSlot(A) or releaseSlot(A)
TriggerOrReleaseOf(A) ==
    /\ lastCall'.op \in { "triggerSlot", "releaseSlot" }
    /\ lastCall'.slot = A

\* the pending timers of a playback state, in firing order
PendingTimers(ts, sid) == SelectSeq(ts, LAMBDA x : x.state = sid)

\* the step leaves the playback of slot B as it is: active or idle as before,
\* the same playback state with the same fields (sounding set included), the
\* same pending timers
PlaybackUntouched(B) ==
    /\ isSlotActive(B)' = isSlotActive(B)
    /\ isSlotActive(B) =>
          /\ MapGet(activeGestures, B)' = MapGet(activeGestures, B)
          /\ heap'[MapGet(activeGestures, B)] = heap[MapGet(activeGestures, B)]
          /\ PendingTimers(timers', MapGet(activeGestures, B))
                = PendingTimers(timers, MapGet(activeGestures, B))

\* C35: triggerSlot(A) and releaseSlot(A) leave the playback of every other
\* slot B unchanged (active or idle, sounding set, pending timers), and the
\* noteOffs they issue are only for pitches in A's own sounding set.
C35_SlotIsolation ==
    [][ \A A \in SlotIds :
          TriggerOrReleaseOf(A) =>
              /\ \A B \in SlotIds \ {A} : PlaybackUntouched(B)
              /\ TurnedOff \subseteq SoundingSet(A) ]_vars

\* slot A has been triggered again or released while it sounded a pitch that
\* another active slot sounds too, and that slot has timers pending
C35_Witness ==
    /\ lastCall.op \in { "triggerSlot", "releaseSlot" }
    /\ \E i \in 1..Len(engineCalls) : engineCalls[i].op = "noteOff"
    /\ \E B \in SlotIds \ {lastCall.slot} :
          /\ isSlotActive(B)
          /\ \E i \in 1..Len(engineCalls) :
                engineCalls[i].op = "noteOff" /\ engineCalls[i].note \in SoundingSet(B)
          /\ PendingTimers(timers, MapGet(activeGestures, B)) # << >>

----------------------------------------------------------------------------
(* The sounding sets and the engine's voices *)

\* the slots with a playback in the active map
ActiveSlotIds == { activeGestures[i].slot : i \in 1..Len(activeGestures) }

\* every voice of the pool is active: the next noteOn of a new pitch steals one
AllVoicesActive(e) == \A i \in 1..Len(e.voices) : e.voices[i].active

\* the pitches of the step's engine calls whose entry in activeNotes names the
\* voice that p is mapped to: entries a stolen voice has left behind
SharesVoiceWith(p) ==
    { q \in (TurnedOn \cup TurnedOff) \ {p} :
        /\ q \in DOMAIN engine.activeNotes
        /\ engine.activeNotes[q] = engine.activeNotes[p] }

\* C36 (as amended): a pitch that a step adds to the sounding set of an active
\* slot has an active voice of the engine assigned to it after the step; while
\* the pitch stays in that sounding set it loses its voice only in a step that
\* issues a noteOff for the same pitch (another slot, or another event of the
\* slot, that plays it is released or stopped), in a step whose noteOn of an
\* unmapped pitch found every voice active and stole one, or in a step that
\* issues a noteOn or noteOff for a pitch whose stale entry in activeNotes
\* names the same voice.
C36_SoundingHasVoice ==
    [][ \A S \in ActiveSlotIds' :
          \A p \in SoundingSet(S)' :
            /\ p \notin SoundingSet(S) => Sounding(engine', p)
            /\ p \in SoundingSet(S) /\ Sounding(engine, p) /\ ~Sounding(engine', p) =>
                  \/ p \in TurnedOff
                  \/ /\ AllVoicesActive(engine)
                     /\ \E q \in TurnedOn : q \notin DOMAIN engine.activeNotes
                  \/ SharesVoiceWith(p) # {} ]_vars

\* C36 as stated, in every state: it fails when a slot sharing the pitch is
\* released and when a voice is stolen.
C36_AlwaysVoiced ==
    \A S \in ActiveSlotIds : \A p \in SoundingSet(S) : Sounding(engine, p)

\* a slot has been released while another active slot sounds one of its
\* pitches: the engine has no active voice for that pitch any more
C36_Witness ==
    /\ lastCall.op = "releaseSlot"
    /\ \E B \in ActiveSlotIds, i \in 1..Len(engineCalls) :
          /\ engineCalls[i].op = "noteOff"
          /\ engineCalls[i].note \in SoundingSet(B)
          /\ ~Sounding(engine, engineCalls[i].note)
          /\ \E q \in SoundingSet(B) : Sounding(engine, q)

----------------------------------------------------------------------------
(* The app's pads (motif mode) *)

\* normalizeSlotId(slotId): a MIDI pad note or a pad index is mapped into the
\* grid window, anything else is returned as it is
normalizeSlotId(slotId) ==
    IF slotId >= PadNoteOffset /\ slotId < PadNoteOffset + PadCount
      THEN GridStartSlot + (slotId - PadNoteOffset)
    ELSE IF slotId >= 0 /\ slotId < PadCount
      THEN GridStartSlot + slotId
    ELSE slotId

\* the slot ids of the pads buildPadGrid creates: startSlot + row * 8 + col
GridWindow == GridStartSlot .. (GridStartSlot + PadCount - 1)

\* what the handlers are given: pad indices (keyboard), MIDI notes of the pads,
\* slot ids of the on-screen pads, and the ids around the windows
PadInputs ==
    { 0, PadCount - 1, PadNoteOffset, GridStartSlot - 1, GridStartSlot, GridStartSlot + 1,
      PadNoteOffset + PadCount - 1, PadNoteOffset + PadCount,
      GridStartSlot + PadCount - 1, GridStartSlot + PadCount }

\* the app as constructed: isInitialized is false until init() has created the
\* palette, the engine and the player (here: until the player has its palette)
InitPads ==
    /\ InitHostWith(DefaultMaxSlot - DefaultMinSlot + 1, PadOps, DefaultVoices)
    /\ InitGestures
    /\ palette = FALSE
    /\ rng = RngPair(MasterSeed)

\* init() has been started by a pad press and its then-callback is pending
RedispatchPending == lastCall.op = "handlePadOn" /\ lastCall.args[1] = "init"

\* player.triggerSlot(slot, velocity, { forceOneShot: true }) from handlePadOn,
\* for the press of pad slotId
PadTriggers(slotId, slot, velocity, how) ==
    /\ LET rel == releaseSlot(Player, slot)
       IN  \E i \in StateIds(slot) : Collect(rel.map, rel.heap, rel.timers)[i] = None
    /\ LET r == triggerSlot(Player, slot, velocity, TRUE)
       IN  /\ activeGestures' = r.map
           /\ timers' = r.timers
           /\ heap' = Collect(r.map, r.heap, r.timers)
           /\ engineCalls' = r.calls
           /\ sinceTrigger' =
                IF IsSome(r.result)
                  THEN [ sinceTrigger EXCEPT ![slot] =
                           Some([ state |-> MapGet(r.map, slot), gesture |-> gestures[slot],
                                  velocity |-> velocity, at |-> now, tempo |-> tempo,
                                  isLooping |-> FALSE,
                                  noteOns |-> [ e \in 1..Len(gestures[slot].events) |-> 0 ] ]) ]
                  ELSE sinceTrigger
    /\ lastCall' = Call("handlePadOn", slotId, << how, velocity >>, Some(slot))

\* handlePadOn(slotId, velocity): once initialized it triggers the resolved
\* slot; before, it starts init() and leaves handlePadOn(resolvedSlot, velocity)
\* to run when init() is done
HandlePadOn(slotId, velocity) ==
    /\ budget > 0
    /\ ~RedispatchPending
    /\ budget' = budget - 1
    /\ IF palette
         THEN /\ PadTriggers(slotId, normalizeSlotId(slotId), velocity, "direct")
              /\ UNCHANGED palette
         ELSE /\ palette' = TRUE
              /\ lastCall' = Call("handlePadOn", slotId, << "init", velocity >>,
                                  Some(normalizeSlotId(slotId)))
              /\ engineCalls' = << >>
              /\ UNCHANGED << activeGestures, timers, heap, sinceTrigger >>
    /\ UNCHANGED << paletteVars, rng, engine, now >>

\* init().then(() => this.handlePadOn(resolvedSlot, velocity)): the press is
\* dispatched again, with the slot resolved before
ThenHandlePadOn ==
    /\ RedispatchPending
    /\ PadTriggers(lastCall.slot, normalizeSlotId(Get(lastCall.result)), lastCall.args[2], "then")
    /\ UNCHANGED << paletteVars, palette, rng, engine, now, budget >>

\* handlePadOff(slotId): the resolved slot is released, if there is a player
HandlePadOff(slotId) ==
    /\ ~RedispatchPending
    /\ LET r == IF palette THEN releaseSlot(Player, normalizeSlotId(slotId))
                ELSE [ map |-> activeGestures, heap |-> heap, timers |-> timers,
                       calls |-> << >> ]
       IN  /\ activeGestures' = r.map
           /\ timers' = r.timers
           /\ heap' = Collect(r.map, r.heap, r.timers)
           /\ engineCalls' = r.calls
    /\ sinceTrigger' = IF palette /\ normalizeSlotId(slotId) \in DOMAIN sinceTrigger
                         THEN [ sinceTrigger EXCEPT ![normalizeSlotId(slotId)] = None ]
                         ELSE sinceTrigger
    /\ lastCall' = Call("handlePadOff", slotId, << >>, Some(normalizeSlotId(slotId)))
    /\ UNCHANGED << paletteVars, palette, rng, engine, now, budget >>

NextPads ==
    \/ \E s \in PadInputs, v \in Velocities : HandlePadOn(s, v)
    \/ ThenHandlePadOn
    \/ \E s \in PadInputs : HandlePadOff(s)

SpecPads == InitPads /\ [][NextPads]_vars

\* handlePadOn has run to its end for the press of an on-screen pad
PadPressed ==
    /\ lastCall.op = "handlePadOn"
    /\ lastCall.args[1] \in { "direct", "then" }
    /\ lastCall.slot \in GridWindow

\* C38: normalizeSlotId returns every slot id of the visible grid window as it
\* is, so the press of the on-screen pad of slot s, also one dispatched again
\* after init(), triggers exactly slot s, and the pad-off of that pad resolves
\* to the slot its pad-on triggered.
C38_PadResolvesToItself ==
    /\ PadPressed =>
          /\ lastCall.result = Some(lastCall.slot)
          /\ lastCall.result = Some(normalizeSlotId(lastCall.slot))
    /\ (palette /\ lastCall.op = "handlePadOff" /\ lastCall.slot \in GridWindow) =>
          lastCall.result = Some(lastCall.slot)

----------------------------------------------------------------------------
(* The legacy GesturePlayer and its GestureGrid.  Its state is kept in the
   variables of the player above: gestures is the grid's this.pads,
   activeGestures the player's Map padIndex -> playback state, heap the
   playback state objects in the order they were created, timers the pending
   setTimeout entries, tempo the grid's tempo.  sinceTrigger records, per
   playback state, the notes its code has turned on (issued, in order) and
   those of them no noteOff or allNotesOff has followed (sounding).  Times are
   ms, velocities thousandths.  The grid holds no arp and no groove gesture. *)

\* a Map key that is a number, and one that is an object (a playback state)
Num(n) == [ tag |-> "number", v |-> n ]

Ref(i) == [ tag |-> "object", v |-> i ]

\* Map.prototype.has / get / delete / set, the entries in insertion order
has(m, key) == \E i \in 1..Len(m) : m[i].key = key

mapGet(m, key) == m[CHOOSE i \in 1..Len(m) : m[i].key = key].value

mapDelete(m, key) == SelectSeq(m, LAMBDA x : x.key # key)

mapSet(m, key, value) ==
    IF has(m, key)
      THEN [ i \in 1..Len(m) |-> IF m[i].key = key THEN [ key |-> key, value |-> value ] ELSE m[i] ]
      ELSE Append(m, [ key |-> key, value |-> value ])

\* a step of a one-shot pattern: note is an index into the chord, or 'chord'
\* (None); time is in thousandths of a beat
Step(note, time, velocity) == [ note |-> note, time |-> time, velocity |-> velocity ]

LegacyGesture(type, notes, gateTime, pattern, delays, velocities) ==
    [ type |-> type, notes |-> notes, gateTime |-> gateTime, pattern |-> pattern,
      delays |-> delays, velocities |-> velocities ]

\* generateBlockChord, generateStrumChord, generateSingleNote,
\* generateStaccatoNote, generateOneshotPattern (stab), generatePercGesture
\* (flam) for a C major triad; pad 6 holds no gesture
GridPads ==
    [ p \in 0..6 |->
        CASE p = 0 -> Some(LegacyGesture("block", << 60, 64, 67 >>, 0, << >>, << >>, << >>))
          [] p = 1 -> Some(LegacyGesture("strum", << 60, 64, 67 >>, 0, << >>, << >>, << >>))
          [] p = 2 -> Some(LegacyGesture("single", << 72 >>, 0, << >>, << >>, << >>))
          [] p = 3 -> Some(LegacyGesture("staccato", << 72 >>, 100, << >>, << >>, << >>))
          [] p = 4 -> Some(LegacyGesture("oneshot", << 60, 64, 67 >>, 0,
                                         << Step(None, 0, 1000), Step(None, 500, 600) >>,
                                         << >>, << >>))
          [] p = 5 -> Some(LegacyGesture("perc", << 60, 60 >>, 50, << >>, << 0, 20 >>,
                                         << 700, 1000 >>))
          [] OTHER -> None ]

\* values of (Math.random() - 0.5) * 2 * this.strumVariance * this.strumSpeed,
\* with strumVariance 0.3
StrumVariances == { -18, 17 }

\* getStrumDelay(noteIndex), for one value of the variance
getStrumDelay(noteIndex, variance) == Max(0, noteIndex * StrumSpeed + variance)

\* a pending setTimeout of the legacy player: kind names the callback, state
\* the playback state its closure holds, i the index of its note or step
LegacyTimer(kind, state, i, fireAt) ==
    [ kind |-> kind, state |-> state, i |-> i, fireAt |-> fireAt ]

\* the state the operations of the legacy player work on, and the engine
\* calls they have issued
LegacyWorld ==
    [ map |-> activeGestures, heap |-> heap, timers |-> timers, calls |-> << >> ]

\* the notes a sequence of engine calls, issued by the code of playback state
\* sid, turns on and off
RECURSIVE hear(_, _, _)
hear(g, sid, calls) ==
    IF calls = << >> THEN g
    ELSE LET c == Head(calls)
             g1 == IF c.op = "noteOn"
                     THEN [ g EXCEPT ![sid].issued = Append(@, c.note),
                                     ![sid].sounding = @ \cup { c.note } ]
                   ELSE IF c.op = "noteOff"
                     THEN [ k \in DOMAIN g |-> [ g[k] EXCEPT !.sounding = @ \ { c.note } ] ]
                   ELSE [ k \in DOMAIN g |-> [ g[k] EXCEPT !.sounding = { } ] ]
         IN  hear(g1, sid, Tail(calls))

\* releasePad(padIndex); no playback state of the model has an intervalId
releasePad(w, padIndex) ==
    IF ~has(w.map, Num(padIndex)) THEN w
    ELSE LET state == w.heap[mapGet(w.map, Num(padIndex)).v]
         IN  [ w EXCEPT !.calls = @ \o [ i \in 1..Len(state.activeNotes) |->
                                           noteOff(state.activeNotes[i]) ],
                        !.map = mapDelete(@, Num(padIndex)) ]

\* releaseAll(): releasePad for each key
RECURSIVE releaseEachPad(_, _)
releaseEachPad(w, keys) ==
    IF keys = << >> THEN w
    ELSE releaseEachPad(releasePad(w, Head(keys)), Tail(keys))

\* playBlock(state)
playBlock(w, sid, time) ==
    LET state == w.heap[sid]
        notes == state.gesture.notes
    IN  [ w EXCEPT !.calls = @ \o [ i \in 1..Len(notes) |-> noteOn(notes[i], state.velocity) ],
                   !.heap[sid].activeNotes = @ \o notes ]

\* playStrum(state): one timeout per note, after getStrumDelay(i)
RECURSIVE armStrum(_, _, _, _, _)
armStrum(ts, sid, time, variances, i) ==
    IF i > Len(variances) THEN ts
    ELSE armStrum(InsertTimer(ts, LegacyTimer("strum", sid, i - 1,
                                              time + getStrumDelay(i - 1, variances[i]))),
                  sid, time, variances, i + 1)

playStrum(w, sid, time, variances) ==
    [ w EXCEPT !.timers = armStrum(@, sid, time,
                                   SubSeq(variances, 1, Len(w.heap[sid].gesture.notes)), 1) ]

\* playSingle(state): the note, and for a staccato the timeout of its gate
playSingle(w, sid, time) ==
    LET state == w.heap[sid]
        note == state.gesture.notes[1]
        w1 == [ w EXCEPT !.calls = Append(@, noteOn(note, state.velocity)),
                         !.heap[sid].activeNotes = Append(@, note) ]
    IN  IF state.gesture.type = "staccato"
          THEN [ w1 EXCEPT !.timers = InsertTimer(@, LegacyTimer("gate", sid, 0,
                                                                 time + state.gesture.gateTime)) ]
          ELSE w1

\* playOneshot(state): one timeout per step, and the one of allNotesOff
RECURSIVE armSteps(_, _, _, _, _)
armSteps(ts, sid, time, pattern, i) ==
    IF i > Len(pattern) THEN ts
    ELSE armSteps(InsertTimer(ts, LegacyTimer("step", sid, i,
                                              time + (pattern[i].time * getMsPerBeat(tempo)) \div 1000)),
                  sid, time, pattern, i + 1)

RECURSIVE MaxTime(_)
MaxTime(pattern) ==
    IF pattern = << >> THEN 0 ELSE Max(Head(pattern).time, MaxTime(Tail(pattern)))

playOneshot(w, sid, time) ==
    LET pattern == w.heap[sid].gesture.pattern
        totalMs == (MaxTime(pattern) * getMsPerBeat(tempo)) \div 1000 + 200
    IN  [ w EXCEPT !.timers = InsertTimer(armSteps(@, sid, time, pattern, 1),
                                          LegacyTimer("alloff", sid, 0, time + totalMs)) ]

\* playPerc(state): one timeout per note, after delays[i] || 0
RECURSIVE armHits(_, _, _, _, _)
armHits(ts, sid, time, gesture, i) ==
    IF i > Len(gesture.notes) THEN ts
    ELSE armHits(InsertTimer(ts, LegacyTimer("hit", sid, i,
                                             time + (IF i <= Len(gesture.delays)
                                                       THEN gesture.delays[i] ELSE 0))),
                 sid, time, gesture, i + 1)

playPerc(w, sid, time) ==
    [ w EXCEPT !.timers = armHits(@, sid, time, w.heap[sid].gesture, 1) ]

\* triggerPad(padIndex, velocity) on a pad that holds a gesture
triggerPad(w, padIndex, velocity, time, variances) ==
    LET gesture == Get(gestures[padIndex])
        w1 == releasePad(w, padIndex)
        sid == Len(w1.heap) + 1
        playbackState == [ gesture |-> gesture, velocity |-> velocity, startTime |-> time,
                           activeNotes |-> << >>, intervalId |-> None, stepIndex |-> 0 ]
        w2 == [ w1 EXCEPT !.heap = Append(@, playbackState),
                          !.map = mapSet(@, Num(padIndex), Ref(sid)) ]
    IN  CASE gesture.type = "block" -> playBlock(w2, sid, time)
          [] gesture.type = "strum" -> playStrum(w2, sid, time, variances)
          [] gesture.type \in { "single", "staccato" } -> playSingle(w2, sid, time)
          [] gesture.type = "oneshot" -> playOneshot(w2, sid, time)
          [] gesture.type = "perc" -> playPerc(w2, sid, time)

\* the callback of a timeout, run at a time
runLegacyTimer(w, tm, time) ==
    LET sid == tm.state
        state == w.heap[sid]
        notes == state.gesture.notes
    IN  CASE tm.kind = "strum" ->
               IF has(w.map, Ref(sid))
                 THEN [ w EXCEPT !.calls = Append(@, noteOn(notes[tm.i + 1],
                                              (state.velocity * (1000 - tm.i * 50)) \div 1000)),
                                 !.heap[sid].activeNotes = Append(@, notes[tm.i + 1]) ]
                 ELSE w
          [] tm.kind = "gate" ->
               [ w EXCEPT !.calls = Append(@, noteOff(notes[1])),
                          !.heap[sid].activeNotes = SelectSeq(@, LAMBDA n : n # notes[1]) ]
          [] tm.kind = "step" ->
               LET step == state.gesture.pattern[tm.i]
                   v == (state.velocity * step.velocity) \div 1000
               IN  IF step.note = None
                     THEN [ w EXCEPT !.calls = @ \o [ i \in 1..Len(notes) |-> noteOn(notes[i], v) ] ]
                     ELSE [ w EXCEPT !.calls =
                              Append(@, noteOn(notes[(Get(step.note) % Len(notes)) + 1], v)) ]
          [] tm.kind = "alloff" ->
               [ w EXCEPT !.calls = Append(@, allNotesOff) ]
          [] tm.kind = "hit" ->
               LET velocities == state.gesture.velocities
                   v == IF tm.i <= Len(velocities) /\ velocities[tm.i] # 0
                          THEN velocities[tm.i] ELSE state.velocity
               IN  [ w EXCEPT !.calls = Append(@, noteOn(notes[tm.i], v)),
                              !.timers = InsertTimer(@, LegacyTimer("hitoff", sid, tm.i,
                                                                    time + state.gesture.gateTime)) ]
          [] tm.kind = "hitoff" ->
               [ w EXCEPT !.calls = Append(@, noteOff(notes[tm.i])) ]

\* new GestureGrid() with its pads filled, new GesturePlayer(engine) and
\* setGrid(grid)
InitLegacy ==
    /\ budget = LegacyOps
    /\ engine = PolyphonicEngine(DefaultVoices)
    /\ minSlot = 0
    /\ maxSlot = 6
    /\ root = "C"
    /\ scale = "major"
    /\ tempo = GridTempo
    /\ styleDistribution = InitialDistribution
    /\ lockedSlots = << >>
    /\ slotConfigs = << >>
    /\ harmonicContext = HarmonicContext("C", "major")
    /\ gestures = GridPads
    /\ activeGestures = << >>
    /\ heap = << >>
    /\ timers = << >>
    /\ now = 0
    /\ engineCalls = << >>
    /\ lastCall = Call("constructor", 0, << >>, None)
    /\ sinceTrigger = << >>
    /\ palette = TRUE
    /\ rng = RngPair(MasterSeed)

\* the variables the legacy player never writes
LegacyFixed == << paletteVars, palette, rng, engine >>

\* the host calls triggerPad
TriggerPad(padIndex, velocity, variances) ==
    /\ budget > 0
    /\ budget' = budget - 1
    /\ IF gestures[padIndex] = None
         THEN /\ lastCall' = Call("triggerPad", padIndex, << velocity >>, None)
              /\ engineCalls' = << >>
              /\ UNCHANGED << activeGestures, heap, timers, sinceTrigger >>
         ELSE \E w \in { triggerPad(LegacyWorld, padIndex, velocity, now, variances) } :
                /\ activeGestures' = w.map
                /\ heap' = w.heap
                /\ timers' = w.timers
                /\ engineCalls' = w.calls
                /\ sinceTrigger' = hear(Append(sinceTrigger, [ issued |-> << >>, sounding |-> { } ]),
                                        Len(w.heap), w.calls)
                /\ lastCall' = Call("triggerPad", padIndex, << velocity >>, gestures[padIndex])
    /\ UNCHANGED << LegacyFixed, now >>

\* the host calls releasePad
ReleasePad(padIndex) ==
    /\ \E w \in { releasePad(LegacyWorld, padIndex) } :
         /\ activeGestures' = w.map
         /\ engineCalls' = w.calls
         /\ sinceTrigger' = hear(sinceTrigger, 0, w.calls)
    /\ lastCall' = Call("releasePad", padIndex, << >>, None)
    /\ UNCHANGED << LegacyFixed, heap, timers, now, budget >>

\* the host calls releaseAll
ReleaseAllPads ==
    /\ \E w \in { releaseEachPad(LegacyWorld, [ i \in 1..Len(activeGestures) |->
                                                  activeGestures[i].key.v ]) } :
         /\ activeGestures' = w.map
         /\ engineCalls' = w.calls
         /\ sinceTrigger' = hear(sinceTrigger, 0, w.calls)
    /\ lastCall' = Call("releaseAll", 0, << >>, None)
    /\ UNCHANGED << LegacyFixed, heap, timers, now, budget >>

\* time passes until the next timeout is due, and the event loop runs it
FireLegacyTimer ==
    /\ timers # << >>
    /\ now' = Max(now, timers[1].fireAt)
    /\ \E w \in { runLegacyTimer([ LegacyWorld EXCEPT !.timers = Tail(@) ], timers[1], now') } :
         /\ heap' = w.heap
         /\ timers' = w.timers
         /\ engineCalls' = w.calls
         /\ sinceTrigger' = hear(sinceTrigger, timers[1].state, w.calls)
    /\ lastCall' = Call("timeout", 0, << timers[1].kind, timers[1].state >>, None)
    /\ UNCHANGED << LegacyFixed, activeGestures, budget >>

NextLegacy ==
    \/ \E p \in DOMAIN gestures, v \in Velocities, d \in [ 1..3 -> StrumVariances ] :
         TriggerPad(p, v, d)
    \/ \E p \in DOMAIN gestures : ReleasePad(p)
    \/ ReleaseAllPads
    \/ FireLegacyTimer

SpecLegacy == InitLegacy /\ [][NextLegacy]_vars

\* the event loop runs every timeout
SpecLegacyLive == InitLegacy /\ [][NextLegacy]_vars /\ WF_vars(FireLegacyTimer)

\* the playback state is in the player's map: its pad is held
Held(sid) == \E i \in 1..Len(activeGestures) : activeGestures[i].value = Ref(sid)

\* C39: once a pad is released (or triggered again), every note its playback
\* turned on has been turned off, and no timeout armed by that playback issues
\* another noteOn or noteOff.
C39_ReleasedIsSilent ==
    \A sid \in 1..Len(heap) :
        ~Held(sid) =>
            /\ sinceTrigger[sid].sounding = { }
            /\ (lastCall.op = "timeout" /\ lastCall.args[2] = sid /\ lastCall.args[1] # "alloff")
                  => engineCalls = << >>

\* the playback state of a strum whose pad is held
HeldStrum(sid) ==
    /\ sid <= Len(heap)
    /\ heap[sid].gesture.type = "strum"
    /\ Held(sid)

\* every note of the chord has been turned on, in strum order, and is recorded
\* in activeNotes
StrumPlayed(sid) ==
    /\ sid <= Len(heap)
    /\ sinceTrigger[sid].issued = heap[sid].gesture.notes
    /\ heap[sid].activeNotes = heap[sid].gesture.notes

\* C40: a triggered strum whose pad stays held eventually has a noteOn issued
\* for every note of its chord, in strum order, each recorded in activeNotes.
C40_StrumSounds ==
    \A sid \in 1..LegacyOps : HeldStrum(sid) ~> (~Held(sid) \/ StrumPlayed(sid))
====
